---- MODULE Spec2Model ----
(***************************************************************************)
(* Model of the project-creation pipeline of project-module:               *)
(*   handlers.ProjectHandler.CreateProject  (internal/handlers/project.go) *)
(*   service.FileService.ProcessUploads / DeleteSavedFiles (internal/api)  *)
(*   services.ProjectService.CreateProject  (services)                     *)
(*   models.ProjectModel.CreateProjectTx    (internal/models/project.go)   *)
(* and of the team-member routes (AddTeamMemberToProject,                  *)
(* GetTeamMembersOfProject, UpdateTeamMemberRole) through handler, service *)
(* and model.                                                              *)
(* File names are sequences of one-character strings, so that              *)
(* filepath.Ext, strings.EqualFold and filepath.Join are computed.         *)
(***************************************************************************)
EXTENDS Integers, Sequences, FiniteSets, TLC

\* ---------------------------------------------------------------- bounds
\* Largest number of file parts (pitch-decks plus images) in one request.
MaxBatch == 3
\* Total number of file parts over the concurrent requests of Spec.
MaxUploads == 2
\* Number of file parts of the request of SpecNames.
MaxNamed == 1
\* Number of team-member requests in SpecTeam.
MaxCalls == 2
\* Number of parts of a file name given to RetrieveFile in SpecRetrieve.
MaxParts == 2
\* Number of looking_for form values of a request in SpecLookingFor.
MaxTags == 2
\* Capacity of the semaphores of ProcessUploads and DeleteSavedFiles. The
\* program sets maxConcurrents = 10 (internal/api/api.go:42); the model
\* scales it down so that batches larger than the capacity are explored.
maxConcurrents == 2

\* The createProject requests the server handles, each in its own goroutine.
Requests == {1, 2}

\* ------------------------------------------------------- strings and paths
Max(S) == CHOOSE x \in S : \A y \in S : y <= x

\* strings.ToLower on one character (ASCII letters that occur in the model).
ToLowerCh(c) ==
    CASE c = "P" -> "p" [] c = "D" -> "d" [] c = "F" -> "f"
      [] c = "N" -> "n" [] c = "G" -> "g" [] c = "J" -> "j"
      [] c = "E" -> "e" [] c = "S" -> "s" [] c = "V" -> "v"
      [] c = "X" -> "x" [] c = "A" -> "a" [] c = "L" -> "l"
      [] OTHER -> c

ToLower(s) == [i \in 1..Len(s) |-> ToLowerCh(s[i])]

\* strings.EqualFold: equality under simple case folding.
EqualFold(s, t) == Len(s) = Len(t) /\ \A i \in 1..Len(s) : ToLowerCh(s[i]) = ToLowerCh(t[i])

\* filepath.Ext: the suffix beginning at the final dot of the final path
\* element; empty if there is none.
Ext(path) ==
    LET dots == {i \in 1..Len(path) :
                    path[i] = "." /\ \A j \in i..Len(path) : path[j] # "/"}
    IN  IF dots = {} THEN <<>> ELSE SubSeq(path, Max(dots), Len(path))

\* filepath.Join(dir, name) for a directory and a name.
Join(dir, name) == [dir |-> dir, name |-> name]

ExtPdf == <<".", "p", "d", "f">>
ExtJpg == <<".", "j", "p", "g">>
ExtJpeg == <<".", "j", "p", "e", "g">>
ExtPng == <<".", "p", "n", "g">>
ExtSvg == <<".", "s", "v", "g">>

\* The allow-list saveFileConcurrently selects for a category tag.
allowedTypes(fileType) ==
    IF fileType = "pdf" THEN <<ExtPdf>>
    ELSE IF fileType = "images" THEN <<ExtJpg, ExtJpeg, ExtPng, ExtSvg>>
    ELSE <<>>

\* Variant: the extension compared case-sensitively.
validateFileTypeMut(filename, allowed) ==
    \E i \in 1..Len(allowed) : Ext(filename) = allowed[i]

validateFileType(filename, allowed) ==
    \E i \in 1..Len(allowed) : EqualFold(Ext(filename), allowed[i])

\* uuid.New().String() as drawn by task i of request r: a string without dot
\* or separator. Identifiers drawn by different tasks are distinct.
\* Variant: identifiers that repeat from one request to the next.
UUIDsMut == [r \in 1..4 |-> <<"u1", "u2", "u3", "u4", "u5">>]

UUIDs == << <<"u11", "u12", "u13", "u14", "u15">>,
           <<"u21", "u22", "u23", "u24", "u25">>,
           <<"u31", "u32", "u33", "u34", "u35">>,
           <<"u41", "u42", "u43", "u44", "u45">> >>

\* utils.GenerateUniqueFilename(original) with uuid the identifier drawn.
\* Variant: the original name kept as the stored name.
GenerateUniqueFilenameMut(original, uuid) == original

GenerateUniqueFilename(original, uuid) == <<uuid>> \o Ext(original)

\* Original file names of the uploaded parts.
Filenames == { <<"a", ".", "p", "d", "f">>,
               <<"l", ".", "P", "N", "G">> }

\* A wider choice of original file names: every allowed extension in lower
\* and upper case, other extensions, no extension, several dots.
AllNames == Filenames \cup
    { <<"a", ".", "P", "D", "F">>,
      <<"j", ".", "j", "p", "g">>,
      <<"j", ".", "J", "p", "G">>,
      <<"e", ".", "j", "p", "e", "g">>,
      <<"e", ".", "J", "P", "E", "G">>,
      <<"p", ".", "p", "n", "g">>,
      <<"s", ".", "s", "v", "g">>,
      <<"s", ".", "S", "V", "G">>,
      <<"x", ".", "e", "x", "e">>,
      <<"r", "e", "a", "d", "m", "e">>,
      <<"a", ".", "p", "d", "f", ".", "e", "x", "e">>,
      <<"x", ".", "e", "x", "e", ".", "p", "d", "f">>,
      <<".", "p", "n", "g">>,
      <<"a", ".", "p", "d", "f", "x">>,
      <<"p", "d", "f">>,
      <<"a", ".">> }

\* ------------------------------------------------------------------ dto
\* dto.ConstructFileResults
RECURSIVE TagAll(_, _)
TagAll(names, tag) ==
    IF names = <<>> THEN <<>>
    ELSE <<[FileType |-> tag, Filename |-> Head(names)]>> \o TagAll(Tail(names), tag)

\* Variant: the pitch-decks tagged with the category tag instead of the directory.
ConstructFileResultsMut(savedFiles) ==
    TagAll(savedFiles.ImageFiles, "images") \o TagAll(savedFiles.PDFFiles, "pdf")

ConstructFileResults(savedFiles) ==
    TagAll(savedFiles.ImageFiles, "images") \o TagAll(savedFiles.PDFFiles, "pdfs")

\* The loop of ProcessUploads that organises the results by category.
RECURSIVE NamesOf(_, _)
NamesOf(results, tag) ==
    IF results = <<>> THEN <<>>
    ELSE (IF Head(results).FileType = tag THEN <<Head(results).Filename>> ELSE <<>>)
         \o NamesOf(Tail(results), tag)

\* Variant: the pitch-decks looked up under the directory name.
OrganizeResultsMut(savedFiles) ==
    [ImageFiles |-> NamesOf(savedFiles, "images"), PDFFiles |-> NamesOf(savedFiles, "pdfs")]

OrganizeResults(savedFiles) ==
    [ImageFiles |-> NamesOf(savedFiles, "images"), PDFFiles |-> NamesOf(savedFiles, "pdf")]

EmptySavedFiles == [ImageFiles |-> <<>>, PDFFiles |-> <<>>]


\* ---------------------------------------------------------------- errors
\* error values: kind "none" is nil. save holds the per-file failures of
\* ProcessUploads, cause the failure of CreateProjectTx, del the messages of
\* DeleteSavedFiles.
NoErr == [kind |-> "none", save |-> <<>>, cause |-> "", del |-> <<>>]

NoProject == [ID |-> 0, PitchDecks |-> <<>>, Images |-> <<>>]

NoDel == [caller |-> "none", list |-> <<>>, st |-> <<>>, next |-> 1,
          sem |-> 0, wg |-> 0, errorCh |-> <<>>, closed |-> FALSE, failed |-> {}]

NoTx == [st |-> "none", err |-> "", projects |-> <<>>, pitch_decks |-> <<>>, images |-> <<>>]

\* ----------------------------------------------------------------- state
VARIABLES
    files,      \* storage: the set of paths ([dir, name]) at which a file exists
    dirs,       \* storage: the set of existing directories
    db,         \* committed rows: projects, project_pitch_decks, project_images
    lastId,     \* AUTO_INCREMENT counter of projects
    quota,      \* number of file parts the requests not yet received may carry
    pool,       \* the original file names the clients upload
    pc,         \* per request: position of the handler
    tasks,      \* per request: the upload tasks of ProcessUploads
    next,       \* per request: index of the next task ProcessUploads launches
    sem,        \* per request: slots taken in ProcessUploads' semaphore
    wg,         \* per request: counter of ProcessUploads' WaitGroup
    resultsCh,  \* per request: contents of resultsCh
    errCh,      \* per request: contents of errCh
    fileResponse, \* per request: the SavedFiles ProcessUploads returned
    puErr,      \* per request: the error ProcessUploads returned
    del,        \* per request: the running call of DeleteSavedFiles
    tx,         \* per request: the transaction of CreateProjectTx
    project,    \* per request: the dto.Project CreateProjectTx works on
    resp,       \* per request: the HTTP response written
    team_members, \* committed rows of team_members
    lastMemberId, \* AUTO_INCREMENT counter of team_members
    calls,      \* number of team-member requests the clients may still send
    call,       \* per caller: the team-member request its handler works on
    fetch       \* the request of a read route (file retrieval, getProject)

vars == <<files, dirs, db, lastId, quota, pool, pc, tasks, next, sem, wg,
          resultsCh, errCh, fileResponse, puErr, del, tx, project, resp,
          team_members, lastMemberId, calls, call, fetch>>

storeVars == <<files, dirs>>
dbVars == <<db, lastId, tx, project>>
puVars == <<tasks, next, sem, wg, resultsCh, errCh>>
teamVars == <<team_members, lastMemberId, calls, call>>
createVars == <<storeVars, dbVars, quota, pool, pc, puVars, fileResponse, puErr, del, resp>>

\* The handlers of the team-member routes that may run concurrently.
Callers == {1, 2}

NoMember == [ID |-> 0, ProjectID |-> 0, Role |-> ""]

\* A team-member request: the route (op), the position of its handler (st),
\* the inputs, whether validateProjectExists found the project (exists),
\* whether a statement on team_members was executed (touched), and the
\* response (status, err, the member or members returned).
NoCall == [op |-> "none", st |-> "idle", projectID |-> 0, member |-> NoMember,
           memberID |-> 0, role |-> "", exists |-> "", touched |-> FALSE,
           status |-> 0, err |-> "", members |-> <<>>]

NoResp == [status |-> 0, project |-> NoProject, err |-> NoErr]

\* A request of a read route: the route (op), the position of its handler
\* (st), the file name or project id asked for, the path RetrieveFile opened
\* (opened tells whether os.Open was called), and the response.
\* For the looking_for column: the form values of the request (lookingFor),
\* the string stored in the projects row (stored) and the tags read back
\* (parsed), the last two as sequences of symbols.
NoFetch == [op |-> "none", st |-> "idle", filename |-> <<>>, id |-> 0,
            path |-> Join("", <<>>), opened |-> FALSE, exists |-> "",
            err |-> "", project |-> NoProject,
            lookingFor |-> <<>>, stored |-> <<>>, parsed |-> <<>>]

\* The state after construction: empty storage and tables, the requests in
\* live not yet received, and first as the request of the read routes.
InitWith(live, q, names, n, first) ==
    /\ files = {}
    /\ dirs = {}
    /\ db = [projects |-> <<>>, pitch_decks |-> <<>>, images |-> <<>>]
    /\ lastId = 0
    /\ quota = q
    /\ pool = names
    /\ pc = [r \in Requests |-> IF r \in live THEN "idle" ELSE "off"]
    /\ tasks = [r \in Requests |-> <<>>]
    /\ next = [r \in Requests |-> 1]
    /\ sem = [r \in Requests |-> 0]
    /\ wg = [r \in Requests |-> 0]
    /\ resultsCh = [r \in Requests |-> <<>>]
    /\ errCh = [r \in Requests |-> <<>>]
    /\ fileResponse = [r \in Requests |-> EmptySavedFiles]
    /\ puErr = [r \in Requests |-> NoErr]
    /\ del = [r \in Requests |-> NoDel]
    /\ tx = [r \in Requests |-> NoTx]
    /\ project = [r \in Requests |-> NoProject]
    /\ resp = [r \in Requests |-> NoResp]
    /\ team_members = <<>>
    /\ lastMemberId = 0
    /\ calls = n
    /\ call = [c \in Callers |-> NoCall]
    /\ fetch = first

\* Concurrent requests sharing storage and database.
Init == InitWith(Requests, MaxUploads, Filenames, 0, NoFetch)

\* One request with a batch that may exceed the semaphore's capacity.
InitBatch == InitWith({1}, MaxBatch, Filenames, 0, NoFetch)

\* One request with few parts, their names drawn from AllNames.
InitNames == InitWith({1}, MaxNamed, AllNames, 0, NoFetch)

\* One request with at most MaxUploads parts.
InitRequest == InitWith({1}, MaxUploads, Filenames, 0, NoFetch)

\* One request with a batch that may exceed the semaphore's capacity, every
\* part named a.pdf: accepted as a pitch-deck, rejected as an image.
InitLive == InitWith({1}, MaxBatch, {<<"a", ".", "p", "d", "f">>}, 0, NoFetch)

\* Two concurrent requests sharing storage and database, every part named
\* l.PNG: accepted as an image, rejected as a pitch-deck.
InitPair == InitWith(Requests, MaxBatch, {<<"l", ".", "P", "N", "G">>}, 0, NoFetch)

\* Two requests with at most MaxUploads image parts in all, in a process that
\* can stop: the second request can arrive after the restart.
InitCrash == InitWith(Requests, MaxUploads, {<<"l", ".", "P", "N", "G">>}, 0, NoFetch)

\* One createProject request without file parts, and team-member requests.
InitTeam == InitWith({1}, 0, Filenames, MaxCalls, NoFetch)

\* One upload task: the arguments of saveFileConcurrently and its progress.
\* name is the generated name once saveFile drew it, made tells whether
\* os.Create created the destination, mkdir whether MkdirAll was called.
NewTask(header, fileType, destDir) ==
    [header |-> header, fileType |-> fileType, destDir |-> destDir,
     st |-> "new", name |-> <<>>, made |-> FALSE, mkdir |-> FALSE]

\* The tasks of a request in launch order: the pitch-decks, then the images.
TasksOf(pdfHeaders, imageHeaders) ==
    [i \in 1..Len(pdfHeaders) |-> NewTask(pdfHeaders[i], "pdf", "pdfs")]
    \o [i \in 1..Len(imageHeaders) |-> NewTask(imageHeaders[i], "images", "images")]

\* --------------------------------------------- ProjectHandler.CreateProject
Digits == {"0", "1", "2", "3", "4", "5", "6", "7", "8", "9"}

\* strconv.ParseFloat(val, 64) returns no error: decimal notation with an
\* optional sign, digits and at most one point (the exponent, hexadecimal
\* and special forms do not occur among the values of the model).
ParseFloatOk(val) ==
    LET body == IF Len(val) > 0 /\ val[1] \in {"+", "-"} THEN Tail(val) ELSE val
    IN  /\ \A i \in 1..Len(body) : body[i] \in Digits \cup {"."}
        /\ Cardinality({i \in 1..Len(body) : body[i] = "."}) <= 1
        /\ \E i \in 1..Len(body) : body[i] \in Digits

validLookingForValues == {"Investment", "Employees", "Partners", "Buyers"}

\* dto.ValidateLookingFor(values) returns nil.
ValidateLookingFor(values) ==
    \A i \in 1..Len(values) : values[i] \in validLookingForValues

\* The form values project_value and looking_for the clients send.
ProjectValues == { <<>>, <<"1", ".", "5">>, <<"-", "2">>, <<"1", ",", "5">>, <<"a">> }

LookingForValues == { <<>>, <<"Investment", "Buyers">>, <<"Investment", "investors">>,
                      <<"Investment,Buyers">> }

\* The handler returns after it answered 400 to an invalid form value.
\* Variant: the handler goes on to ProcessUploads after the 400 response.
AfterValidationErrorMut == "pu"

AfterValidationError == "done"

ValidationError(field) == [kind |-> "validation", save |-> <<>>, cause |-> field, del |-> <<>>]

\* The form value the handler rejects, "" if it accepts the form: the
\* project_value is parsed first (if not empty), then looking_for is validated.
RejectedField(val, lookingFor) ==
    IF val # <<>> /\ ~ParseFloatOk(val) THEN "project_value"
    ELSE IF ~ValidateLookingFor(lookingFor) THEN "looking_for"
    ELSE ""

\* The handler receives a request: it answers 400 to an invalid form value,
\* and otherwise calls ProcessUploads with the file parts of the request.
StartRequest(r) ==
    /\ pc[r] = "idle"
    /\ \E val \in ProjectValues, lookingFor \in LookingForValues :
         IF RejectedField(val, lookingFor) # ""
         THEN /\ resp' = [resp EXCEPT ![r] =
                     [status |-> 400, project |-> NoProject,
                      err |-> ValidationError(RejectedField(val, lookingFor))]]
              /\ pc' = [pc EXCEPT ![r] = AfterValidationError]
              /\ UNCHANGED <<quota, tasks>>
         ELSE /\ \E np \in 0..MaxBatch, ni \in 0..MaxBatch :
                   /\ np + ni <= MaxBatch
                   /\ np + ni <= quota
                   /\ \E pdfHeaders \in [1..np -> pool], imageHeaders \in [1..ni -> pool] :
                        /\ quota' = quota - (np + ni)
                        /\ tasks' = [tasks EXCEPT ![r] = TasksOf(pdfHeaders, imageHeaders)]
              /\ pc' = [pc EXCEPT ![r] = "pu"]
              /\ UNCHANGED resp
    /\ UNCHANGED <<storeVars, dbVars, pool, teamVars, fetch, next, sem, wg, resultsCh, errCh,
                   fileResponse, puErr, del>>

\* ------------------------------------------------ FileService.ProcessUploads
\* sem <- struct{}{} on a channel of capacity maxConcurrents proceeds only
\* while fewer than maxConcurrents slots are taken.
\* Variant: a launch that does not wait for a slot.
CanAcquireMut(taken) == TRUE

CanAcquire(taken) == taken < maxConcurrents

\* One iteration of a launch loop: wg.Add(1); sem <- struct{}{}; go ...
Launch(r) ==
    /\ pc[r] = "pu"
    /\ next[r] <= Len(tasks[r])
    /\ CanAcquire(sem[r])
    /\ wg' = [wg EXCEPT ![r] = @ + 1]
    /\ sem' = [sem EXCEPT ![r] = @ + 1]
    /\ tasks' = [tasks EXCEPT ![r][next[r]].st = "running"]
    /\ next' = [next EXCEPT ![r] = @ + 1]
    /\ UNCHANGED <<storeVars, dbVars, quota, pool, teamVars, fetch, pc, resultsCh, errCh,
                   fileResponse, puErr, del, resp>>

\* make(chan T, n): the number of messages a channel takes before a send
\* blocks. resultsCh and errCh are made with totalFiles slots, the errorCh of
\* DeleteSavedFiles with len(savedFiles).
\* Variant: unbuffered channels.
ChanCapMut(n) == 0

ChanCap(n) == n

\* The one send of a task's outcome: errCh <- err before a return, or
\* resultsCh <- dto.FileResult{...} at the end.
\* Variant: a return without the send.
DeliverMut(ch, msg) == ch

Deliver(ch, msg) == Append(ch, msg)

SaveError(i, t, cause) ==
    [k |-> "save", task |-> i, fileType |-> t.fileType, filename |-> t.header,
     cause |-> cause]

InvalidError(i, t) ==
    [k |-> "invalid", task |-> i, fileType |-> t.fileType, filename |-> t.header,
     cause |-> ""]

\* What saveFile(header, destDir) does to storage, by its outcome: "mkdir",
\* "open", "create" and "copy" name the call that failed, "ok" is success.
\* createDirIfNotExist calls MkdirAll only for an absent directory; a file
\* that os.Create made stays when io.Copy fails.
SaveOutcomes(destDir) ==
    IF destDir \in dirs THEN {"open", "create", "copy", "ok"}
    ELSE {"mkdir", "open", "create", "copy", "ok"}

DirsAfterSave(destDir, outcome) ==
    IF outcome = "mkdir" THEN dirs ELSE dirs \cup {destDir}

FilesAfterSave(destDir, uniqueName, outcome) ==
    IF outcome \in {"copy", "ok"} THEN files \cup {Join(destDir, uniqueName)} ELSE files

\* The body of saveFileConcurrently: the extension check, saveFile, and the
\* send of the task's one outcome on errCh or resultsCh.
TaskRun(r, i) ==
    /\ i \in 1..Len(tasks[r])
    /\ tasks[r][i].st = "running"
    /\ LET t == tasks[r][i] IN
       IF ~validateFileType(t.header, allowedTypes(t.fileType))
       THEN /\ Len(errCh[r]) < ChanCap(Len(tasks[r]))
            /\ errCh' = [errCh EXCEPT ![r] = Deliver(@, InvalidError(i, t))]
            /\ tasks' = [tasks EXCEPT ![r][i].st = "finished"]
            /\ UNCHANGED <<files, dirs, resultsCh>>
       ELSE \E outcome \in SaveOutcomes(t.destDir) :
            LET uniqueName == GenerateUniqueFilename(t.header, UUIDs[r][i]) IN
            /\ dirs' = DirsAfterSave(t.destDir, outcome)
            /\ files' = FilesAfterSave(t.destDir, uniqueName, outcome)
            /\ tasks' = [tasks EXCEPT
                   ![r][i].st = "finished",
                   ![r][i].mkdir = t.destDir \notin dirs,
                   ![r][i].name = IF outcome \in {"create", "copy", "ok"}
                                  THEN uniqueName ELSE <<>>,
                   ![r][i].made = outcome \in {"copy", "ok"}]
            /\ IF outcome = "ok"
               THEN /\ Len(resultsCh[r]) < ChanCap(Len(tasks[r]))
                    /\ resultsCh' = [resultsCh EXCEPT ![r] =
                           Deliver(@, [FileType |-> t.fileType, Filename |-> uniqueName])]
                    /\ UNCHANGED errCh
               ELSE /\ Len(errCh[r]) < ChanCap(Len(tasks[r]))
                    /\ errCh' = [errCh EXCEPT ![r] = Deliver(@, SaveError(i, t, outcome))]
                    /\ UNCHANGED resultsCh
    /\ UNCHANGED <<dbVars, quota, pool, teamVars, fetch, pc, next, sem, wg, fileResponse, puErr, del, resp>>

\* The deferred calls of saveFileConcurrently: <-sem, then wg.Done().
TaskExit(r, i) ==
    /\ i \in 1..Len(tasks[r])
    /\ tasks[r][i].st = "finished"
    /\ sem' = [sem EXCEPT ![r] = @ - 1]
    /\ wg' = [wg EXCEPT ![r] = @ - 1]
    /\ tasks' = [tasks EXCEPT ![r][i].st = "done"]
    /\ UNCHANGED <<storeVars, dbVars, quota, pool, teamVars, fetch, pc, next, resultsCh, errCh,
                   fileResponse, puErr, del, resp>>

\* ---------------------------------------------- FileService.DeleteSavedFiles
\* The state of a call of DeleteSavedFiles(savedFiles) made by caller; failed
\* holds the positions of the descriptors whose os.Remove returned an error.
StartDelete(savedFiles, caller) ==
    [caller |-> caller, list |-> savedFiles,
     st |-> [i \in 1..Len(savedFiles) |-> "new"], next |-> 1,
     sem |-> 0, wg |-> 0, errorCh |-> <<>>, closed |-> FALSE, failed |-> {}]

\* ProcessUploads passes wg.Wait() once both launch loops have ended and the
\* counter of the WaitGroup is zero.
\* Variant: a wait that can return while tasks are still to be launched.
WaitReturnsMut(r) == wg[r] = 0

WaitReturns(r) == next[r] > Len(tasks[r]) /\ wg[r] = 0

\* wg.Wait() returned: close the channels, collect results and errors, and
\* either start the compensation or return the organised SavedFiles to the
\* handler, which attaches them to the project and calls the service.
Collect(r) ==
    /\ pc[r] = "pu"
    /\ WaitReturns(r)
    /\ LET savedFiles == resultsCh[r]
           errorsFound == errCh[r]
       IN  IF Len(errorsFound) > 0
           THEN /\ del' = [del EXCEPT ![r] = StartDelete(savedFiles, "pu")]
                /\ pc' = [pc EXCEPT ![r] = "del"]
                /\ UNCHANGED <<fileResponse, project>>
           ELSE /\ fileResponse' = [fileResponse EXCEPT ![r] = OrganizeResults(savedFiles)]
                /\ project' = [project EXCEPT
                       ![r].PitchDecks = OrganizeResults(savedFiles).PDFFiles,
                       ![r].Images = OrganizeResults(savedFiles).ImageFiles]
                /\ pc' = [pc EXCEPT ![r] = "tx_begin"]
                /\ UNCHANGED del
    /\ UNCHANGED <<storeVars, db, lastId, tx, quota, pool, teamVars, fetch, puVars, puErr, resp>>

\* One iteration of the loop of DeleteSavedFiles: sem <- struct{}{};
\* delWg.Add(1); go func(r) ...
DelLaunch(r) ==
    /\ pc[r] = "del"
    /\ del[r].next <= Len(del[r].list)
    /\ CanAcquire(del[r].sem)
    /\ del' = [del EXCEPT ![r].sem = @ + 1, ![r].wg = @ + 1,
                          ![r].st[del[r].next] = "running", ![r].next = @ + 1]
    /\ UNCHANGED <<storeVars, dbVars, quota, pool, teamVars, fetch, pc, puVars, fileResponse, puErr, resp>>

DeleteError(path, cause) == [path |-> path, cause |-> cause]

\* Whether os.Remove(path) can succeed (TRUE) or fail (FALSE): removing an
\* absent file fails; removing a present one succeeds or fails for a reason
\* of the file system.
\* Variant: the removal of an absent file counts as a success.
RemoveOutcomesMut(path) == IF path \in files THEN BOOLEAN ELSE {TRUE}

RemoveOutcomes(path) == IF path \in files THEN BOOLEAN ELSE {FALSE}

\* errorCh <- msg on the channel buffered for one message per descriptor.
\* Variant: a channel that keeps only its first message.
SendErrorMut(ch, msg) == IF ch = <<>> THEN <<msg>> ELSE ch

SendError(ch, msg) == Append(ch, msg)

\* os.Remove(filepath.Join(r.FileType, r.Filename)) in a deletion goroutine,
\* and the send of the message if it failed.
DelRemove(r, i) ==
    /\ i \in 1..Len(del[r].list)
    /\ del[r].st[i] = "running"
    /\ LET path == Join(del[r].list[i].FileType, del[r].list[i].Filename) IN
       \E removed \in RemoveOutcomes(path) :
          /\ files' = IF removed THEN files \ {path} ELSE files
          /\ IF removed
             THEN del' = [del EXCEPT ![r].st[i] = "removed"]
             ELSE /\ Len(del[r].errorCh) < ChanCap(Len(del[r].list))
                  /\ del' = [del EXCEPT ![r].st[i] = "removed",
                         ![r].failed = @ \cup {i},
                         ![r].errorCh = SendError(@, DeleteError(path,
                             IF path \in files THEN "remove" ELSE "notexist"))]
    /\ UNCHANGED <<dirs, dbVars, quota, pool, teamVars, fetch, pc, puVars, fileResponse, puErr, resp>>

\* The deferred func of a deletion goroutine: <-sem; delWg.Done().
DelExit(r, i) ==
    /\ i \in 1..Len(del[r].list)
    /\ del[r].st[i] = "removed"
    /\ del' = [del EXCEPT ![r].sem = @ - 1, ![r].wg = @ - 1, ![r].st[i] = "done"]
    /\ UNCHANGED <<storeVars, dbVars, quota, pool, teamVars, fetch, pc, puVars, fileResponse, puErr, resp>>

\* delWg.Wait() in the goroutine started after the loop of DeleteSavedFiles.
\* Variant: the channel closed without waiting for the deletion goroutines.
DelWaitReturnsMut(d) == d.next > Len(d.list)

DelWaitReturns(d) == d.next > Len(d.list) /\ d.wg = 0

\* The goroutine started after the loop: delWg.Wait(); close(errorCh).
DelClose(r) ==
    /\ pc[r] = "del"
    /\ DelWaitReturns(del[r])
    /\ ~del[r].closed
    /\ del' = [del EXCEPT ![r].closed = TRUE]
    /\ UNCHANGED <<storeVars, dbVars, quota, pool, teamVars, fetch, pc, puVars, fileResponse, puErr, resp>>

\* The handler returns after it answered a failed ProcessUploads.
\* Variant: the handler goes on to the service after the error response.
AfterUploadErrorMut == "tx_begin"

AfterUploadError == "done"

\* The error ProcessUploads returns for a failed batch: the failures of the
\* tasks, and the error of DeleteSavedFiles if it returned one.
\* Variant: the failures of the tasks left out when deletions failed.
UploadErrorMut(errorsFound, errorMessages) ==
    [kind |-> "upload", save |-> IF errorMessages # <<>> THEN <<>> ELSE errorsFound,
     cause |-> "", del |-> errorMessages]

UploadError(errorsFound, errorMessages) ==
    [kind |-> "upload", save |-> errorsFound, cause |-> "", del |-> errorMessages]

\* The error the handler reports after a failed CreateProject: the error of
\* the service, and delErr if DeleteSavedFiles returned one.
\* Variant: the error of the service left out when deletions failed.
CreateErrorMut(cause, errorMessages) ==
    [kind |-> "create", save |-> <<>>,
     cause |-> IF errorMessages # <<>> THEN "" ELSE cause, del |-> errorMessages]

CreateError(cause, errorMessages) ==
    [kind |-> "create", save |-> <<>>, cause |-> cause, del |-> errorMessages]

\* The range over errorCh ended: DeleteSavedFiles returns, and its caller
\* (ProcessUploads, then the handler; or the handler after a failed
\* CreateProject) builds its error and the handler writes the response.
DelReturn(r) ==
    /\ pc[r] = "del"
    /\ del[r].closed
    /\ LET errorMessages == del[r].errorCh IN
       IF del[r].caller = "pu"
       THEN LET err == UploadError(errCh[r], errorMessages)
            IN  /\ puErr' = [puErr EXCEPT ![r] = err]
                /\ resp' = [resp EXCEPT ![r] =
                       [status |-> 500, project |-> NoProject, err |-> err]]
                /\ pc' = [pc EXCEPT ![r] = AfterUploadError]
       ELSE /\ resp' = [resp EXCEPT ![r] =
                   [status |-> 500, project |-> NoProject,
                    err |-> CreateError(tx[r].err, errorMessages)]]
            /\ pc' = [pc EXCEPT ![r] = "done"]
            /\ UNCHANGED puErr
    /\ UNCHANGED <<storeVars, dbVars, quota, pool, teamVars, fetch, puVars, fileResponse, del>>

\* --------------------------------------------- ProjectModel.CreateProjectTx
\* A failure of CreateProjectTx: the pending rows are discarded, the service
\* returns the error and the handler starts
\* DeleteSavedFiles(ConstructFileResults(fileResponse)).
\* The state in which rollback(tx) leaves the transaction: tx.Rollback()
\* ends it, and an error of Rollback is only logged.
\* Variant: the error returned without the call of rollback.
rollbackMut == "open"

rollback == "rolledback"

TxFail(r, cause, st) ==
    /\ tx' = [tx EXCEPT ![r] = [NoTx EXCEPT !.st = st, !.err = cause]]
    /\ del' = [del EXCEPT ![r] = StartDelete(ConstructFileResults(fileResponse[r]), "handler")]
    /\ pc' = [pc EXCEPT ![r] = "del"]

\* The position after the project row: the batch inserts are skipped for an
\* empty path list.
\* Variant: the pitch-deck batch insert run for an empty list too.
AfterProjectMut(p) == "tx_pitch"

AfterProject(p) ==
    IF Len(p.PitchDecks) > 0 THEN "tx_pitch"
    ELSE IF Len(p.Images) > 0 THEN "tx_images" ELSE "tx_commit"

AfterPitchDecks(p) == IF Len(p.Images) > 0 THEN "tx_images" ELSE "tx_commit"

\* m.db.Begin()
TxBegin(r) ==
    /\ pc[r] = "tx_begin"
    /\ \E ok \in BOOLEAN :
          IF ok
          THEN /\ tx' = [tx EXCEPT ![r].st = "open"]
               /\ pc' = [pc EXCEPT ![r] = "tx_project"]
               /\ UNCHANGED del
          ELSE TxFail(r, "begin", "none")
    /\ UNCHANGED <<storeVars, db, lastId, project, quota, pool, teamVars, fetch, puVars, fileResponse, puErr, resp>>

\* tx.Exec(projectQuery, ...) and result.LastInsertId()
TxInsertProject(r) ==
    /\ pc[r] = "tx_project"
    /\ \E outcome \in {"ok", "insert", "lastid"} :
          /\ lastId' = IF outcome = "insert" THEN lastId ELSE lastId + 1
          /\ IF outcome = "ok"
             THEN /\ tx' = [tx EXCEPT ![r].projects = Append(@, [id |-> lastId + 1])]
                  /\ project' = [project EXCEPT ![r].ID = lastId + 1]
                  /\ pc' = [pc EXCEPT ![r] = AfterProject(project[r])]
                  /\ UNCHANGED del
             ELSE /\ TxFail(r, outcome, rollback)
                  /\ UNCHANGED project
    /\ UNCHANGED <<storeVars, db, quota, pool, teamVars, fetch, puVars, fileResponse, puErr, resp>>

\* The rows of one batch INSERT: one (project_id, file_path) per path.
\* Variant: the last path left out of the batch.
PathRowsMut(projectID, paths) ==
    [i \in 1..(Len(paths) - 1) |-> [project_id |-> projectID, file_path |-> paths[i]]]

PathRows(projectID, paths) ==
    [i \in 1..Len(paths) |-> [project_id |-> projectID, file_path |-> paths[i]]]

\* insertProjectPitchDecksTx
TxInsertPitchDecks(r) ==
    /\ pc[r] = "tx_pitch"
    /\ \E ok \in BOOLEAN :
          IF ok
          THEN /\ tx' = [tx EXCEPT ![r].pitch_decks =
                          @ \o PathRows(project[r].ID, project[r].PitchDecks)]
               /\ pc' = [pc EXCEPT ![r] = AfterPitchDecks(project[r])]
               /\ UNCHANGED del
          ELSE TxFail(r, "pitch_decks", rollback)
    /\ UNCHANGED <<storeVars, db, lastId, project, quota, pool, teamVars, fetch, puVars, fileResponse, puErr, resp>>

\* insertProjectImagesTx
TxInsertImages(r) ==
    /\ pc[r] = "tx_images"
    /\ \E ok \in BOOLEAN :
          IF ok
          THEN /\ tx' = [tx EXCEPT ![r].images =
                          @ \o PathRows(project[r].ID, project[r].Images)]
               /\ pc' = [pc EXCEPT ![r] = "tx_commit"]
               /\ UNCHANGED del
          ELSE TxFail(r, "images", rollback)
    /\ UNCHANGED <<storeVars, db, lastId, project, quota, pool, teamVars, fetch, puVars, fileResponse, puErr, resp>>

\* The tables after tx.Commit(): with the rows of the transaction if it
\* succeeded, unchanged if it failed.
\* Variant: the rows are in the tables although Commit reported a failure.
CommittedMut(d, t, ok) ==
    [projects |-> d.projects \o t.projects,
     pitch_decks |-> d.pitch_decks \o t.pitch_decks,
     images |-> d.images \o t.images]

Committed(d, t, ok) ==
    IF ok
    THEN [projects |-> d.projects \o t.projects,
          pitch_decks |-> d.pitch_decks \o t.pitch_decks,
          images |-> d.images \o t.images]
    ELSE d

\* tx.Commit(); on success the service returns the project and the handler
\* encodes it in the response.
TxCommit(r) ==
    /\ pc[r] = "tx_commit"
    /\ \E ok \in BOOLEAN :
          IF ok
          THEN /\ db' = Committed(db, tx[r], ok)
               /\ tx' = [tx EXCEPT ![r].st = "committed"]
               /\ resp' = [resp EXCEPT ![r] =
                      [status |-> 200, project |-> project[r], err |-> NoErr]]
               /\ pc' = [pc EXCEPT ![r] = "done"]
               /\ UNCHANGED del
          ELSE /\ db' = Committed(db, tx[r], ok)
               /\ TxFail(r, "commit", "commitfailed")
               /\ UNCHANGED resp
    /\ UNCHANGED <<storeVars, lastId, project, quota, pool, teamVars, fetch, puVars, fileResponse, puErr>>

\* ------------------------------------------------- team-member operations
\* The project ids of the request paths, the member ids and the roles the
\* clients send.
ProjectIDs == {1, 2}
MemberIDs == {1, 2}
Roles == {"dev", "lead"}

\* The handler sets the project id of the member from the URL.
\* Variant: the project id of the payload is kept.
PathProjectIDMut(projectID, member) == member.ProjectID

PathProjectID(projectID, member) == projectID

\* Where ProjectService starts for a route: AddTeamMember and GetTeamMembers
\* with validateProjectExists, UpdateTeamMemberRole with the call of the model.
\* Variant: no route checks the project.
ServiceEntryMut(op) == "exec"

ServiceEntry(op) == IF op = "update" THEN "exec" ELSE "check"

\* A handler is free to take the next team-member request.
CanCall(c) == call[c].st \in {"idle", "done"} /\ calls > 0

\* ProjectHandler.AddTeamMemberToProject up to the call of the service: the
\* project id of the path, the decoded payload, member.ProjectID = projectID.
AddTeamMemberToProject(c) ==
    /\ CanCall(c)
    /\ calls' = calls - 1
    /\ \E projectID \in ProjectIDs, decoded \in BOOLEAN,
          payloadProject \in ProjectIDs, role \in Roles :
          LET member == [ID |-> 0, ProjectID |-> payloadProject, Role |-> role] IN
          IF ~decoded
          THEN call' = [call EXCEPT ![c] =
                   [NoCall EXCEPT !.op = "add", !.st = "done", !.projectID = projectID,
                                  !.status = 400, !.err = "payload"]]
          ELSE call' = [call EXCEPT ![c] =
                   [NoCall EXCEPT !.op = "add", !.st = ServiceEntry("add"),
                       !.projectID = projectID,
                       !.member = [member EXCEPT !.ProjectID = PathProjectID(projectID, member)]]]
    /\ UNCHANGED <<createVars, fetch, team_members, lastMemberId>>

\* ProjectHandler.GetTeamMembersOfProject up to the call of the service.
GetTeamMembersOfProject(c) ==
    /\ CanCall(c)
    /\ calls' = calls - 1
    /\ \E projectID \in ProjectIDs :
          call' = [call EXCEPT ![c] =
              [NoCall EXCEPT !.op = "list", !.st = ServiceEntry("list"),
                             !.projectID = projectID]]
    /\ UNCHANGED <<createVars, fetch, team_members, lastMemberId>>

\* ProjectHandler.UpdateTeamMemberRole up to the call of the service, which
\* calls the model without a check of the project. An empty role is
\* answered 400.
UpdateTeamMemberRole(c) ==
    /\ CanCall(c)
    /\ calls' = calls - 1
    /\ \E memberID \in MemberIDs, decoded \in BOOLEAN, role \in Roles \cup {""} :
          IF ~decoded \/ role = ""
          THEN call' = [call EXCEPT ![c] =
                   [NoCall EXCEPT !.op = "update", !.st = "done", !.memberID = memberID,
                                  !.status = 400,
                                  !.err = IF ~decoded THEN "payload" ELSE "role"]]
          ELSE call' = [call EXCEPT ![c] =
                   [NoCall EXCEPT !.op = "update", !.st = ServiceEntry("update"),
                                  !.memberID = memberID,
                                  !.role = role]]
    /\ UNCHANGED <<createVars, fetch, team_members, lastMemberId>>

\* ProjectModel.ProjectExists: SELECT EXISTS(SELECT 1 FROM projects WHERE id = ?)
ProjectExists(projects, projectID) ==
    \E k \in 1..Len(projects) : projects[k].id = projectID

\* ProjectService.validateProjectExists returns nil, given that the query
\* succeeded.
\* Variant: no check of the project.
validateProjectExistsMut(projects, id) == TRUE

validateProjectExists(projects, id) == ProjectExists(projects, id)

\* The first step of ProjectService.AddTeamMember and GetTeamMembers:
\* validateProjectExists on the project id of the call. The service returns
\* its error, which the handler answers with 500.
ValidateProject(c) ==
    /\ call[c].st = "check"
    /\ \E queried \in BOOLEAN :
          IF ~queried
          THEN call' = [call EXCEPT ![c].st = "done", ![c].status = 500,
                                    ![c].err = "lookup"]
          ELSE IF validateProjectExists(db.projects,
                     IF call[c].op = "add" THEN call[c].member.ProjectID
                     ELSE call[c].projectID)
          THEN call' = [call EXCEPT ![c].st = "exec", ![c].exists = "found"]
          ELSE call' = [call EXCEPT ![c].st = "done", ![c].exists = "absent",
                                    ![c].status = 500, ![c].err = "notfound"]
    /\ UNCHANGED <<createVars, fetch, team_members, lastMemberId, calls>>

\* ProjectModel.InsertTeamMember: the INSERT and LastInsertId. "insert" is a
\* failed Exec, "lastid" a failed LastInsertId after the row was inserted.
InsertTeamMember(c) ==
    /\ call[c].op = "add" /\ call[c].st = "exec"
    /\ \E outcome \in {"ok", "insert", "lastid"} :
          LET id == lastMemberId + 1
              member == call[c].member
          IN  /\ lastMemberId' = IF outcome = "insert" THEN lastMemberId ELSE id
              /\ team_members' =
                    IF outcome = "insert" THEN team_members
                    ELSE Append(team_members,
                            [id |-> id, project_id |-> member.ProjectID, role |-> member.Role])
              /\ call' = [call EXCEPT
                     ![c].st = "done", ![c].touched = TRUE,
                     ![c].member.ID = IF outcome = "ok" THEN id ELSE 0,
                     ![c].status = IF outcome = "ok" THEN 201 ELSE 500,
                     ![c].err = IF outcome = "ok" THEN "" ELSE outcome]
    /\ UNCHANGED <<createVars, fetch, calls>>

\* ProjectModel.GetTeamMembers: SELECT ... FROM team_members WHERE project_id = ?
GetTeamMembers(c) ==
    /\ call[c].op = "list" /\ call[c].st = "exec"
    /\ \E queried \in BOOLEAN :
          call' = [call EXCEPT
              ![c].st = "done", ![c].touched = TRUE,
              ![c].members = IF queried
                             THEN SelectSeq(team_members,
                                      LAMBDA row : row.project_id = call[c].projectID)
                             ELSE <<>>,
              ![c].status = IF queried THEN 200 ELSE 500,
              ![c].err = IF queried THEN "" ELSE "query"]
    /\ UNCHANGED <<createVars, fetch, team_members, lastMemberId, calls>>

\* UPDATE team_members SET role = ?, updated_at = CURRENT_TIMESTAMP WHERE id = ?
UpdatedRows(table, id, role) ==
    [k \in 1..Len(table) |->
        IF table[k].id = id THEN [table[k] EXCEPT !.role = role] ELSE table[k]]

\* The counts RowsAffected can report for the UPDATE: the rows it changed. A
\* matched row that already has the role changes only if CURRENT_TIMESTAMP
\* differs from its updated_at.
AffectedRows(table, id, role) ==
    LET matched == {k \in 1..Len(table) : table[k].id = id}
        sameRole == {k \in matched : table[k].role = role}
    IN  (Cardinality(matched) - Cardinality(sameRole)) .. Cardinality(matched)

\* rowsAffected == 0 is reported as an error.
\* Variant: no error for zero affected rows.
NoRowsAffectedMut(rowsAffected) == FALSE

NoRowsAffected(rowsAffected) == rowsAffected = 0

\* ProjectModel.UpdateTeamMemberRole: the UPDATE and RowsAffected. "exec" is
\* a failed Exec, "rowsaffected" a failed RowsAffected after the UPDATE.
ModelUpdateTeamMemberRole(c) ==
    /\ call[c].op = "update" /\ call[c].st = "exec"
    /\ \E outcome \in {"ok", "exec", "rowsaffected"} :
       \E rowsAffected \in AffectedRows(team_members, call[c].memberID, call[c].role) :
          /\ team_members' =
                IF outcome = "exec" THEN team_members
                ELSE UpdatedRows(team_members, call[c].memberID, call[c].role)
          /\ call' = [call EXCEPT
                 ![c].st = "done", ![c].touched = TRUE,
                 ![c].status = IF outcome = "ok" /\ ~NoRowsAffected(rowsAffected)
                               THEN 204 ELSE 500,
                 ![c].err = IF outcome # "ok" THEN outcome
                            ELSE IF NoRowsAffected(rowsAffected) THEN "norows" ELSE ""]
    /\ UNCHANGED <<createVars, fetch, lastMemberId, calls>>

\* ------------------------------------------------------------- read routes
\* filepath.Base: trailing separators are dropped, then everything up to the
\* last separator; "." for the empty path, "/" for a path of separators.
\* Variant: the name used as it came.
BaseMut(path) == path

Base(path) ==
    IF path = <<>> THEN <<".">>
    ELSE LET ends == {i \in 1..Len(path) : path[i] # "/"} IN
         IF ends = {} THEN <<"/">>
         ELSE LET stripped == SubSeq(path, 1, Max(ends))
                  seps == {i \in 1..Len(stripped) : stripped[i] = "/"}
              IN  IF seps = {} THEN stripped
                  ELSE SubSeq(stripped, Max(seps) + 1, Len(stripped))

\* getDestinationDir(ext): the directory for an extension, "" with an error
\* for an unsupported one.
\* Variant: the extension compared as it came, without strings.ToLower.
getDestinationDirMut(ext) ==
    IF ext = ExtPdf THEN "pdfs"
    ELSE IF ext \in {ExtJpg, ExtJpeg, ExtPng, ExtSvg} THEN "images"
    ELSE ""

getDestinationDir(ext) ==
    IF ToLower(ext) = ExtPdf THEN "pdfs"
    ELSE IF ToLower(ext) \in {ExtJpg, ExtJpeg, ExtPng, ExtSvg} THEN "images"
    ELSE ""

\* FileService.RetrieveFile up to os.Open: the path it opens, or the error
\* of getDestinationDir.
RetrievePath(filename) ==
    LET sanitized == Base(filename)
        destDir == getDestinationDir(Ext(sanitized))
    IN  IF destDir = "" THEN [err |-> "unsupported", path |-> Join("", <<>>)]
        ELSE [err |-> "", path |-> Join(destDir, sanitized)]

\* The parts file names are made of, and the names a client may ask for: at
\* most MaxParts parts.
NameParts == { <<"a">>, <<"/">>, <<".">>, <<".", ".">>, <<".", ".", "/", "a">>,
               <<".", "p", "d", "f">>,
               <<".", "P", "d", "F">>, <<".", "j", "p", "e", "g">>, <<".", "J", "P", "G">>,
               <<".", "p", "n", "g">>, <<".", "S", "V", "G">>, <<".", "e", "x", "e">>,
               <<"p", "d", "f", "s">> }

RECURSIVE Concat(_)
Concat(parts) == IF parts = <<>> THEN <<>> ELSE Head(parts) \o Concat(Tail(parts))

RetrieveNames ==
    {Concat(parts) : parts \in UNION {[1..n -> NameParts] : n \in 0..MaxParts}}

\* FileService.RetrieveFile(filename): the error of getDestinationDir, or
\* os.Open of the path, which fails for an absent file and may fail for a
\* present one.
RetrieveFile(filename) ==
    /\ fetch.op = "file" /\ fetch.st = "new" /\ fetch.filename = filename
    /\ LET res == RetrievePath(filename) IN
       IF res.err # ""
       THEN fetch' = [fetch EXCEPT !.st = "done", !.err = res.err]
       ELSE \E opened \in (IF res.path \in files THEN BOOLEAN ELSE {FALSE}) :
               fetch' = [fetch EXCEPT !.st = "done", !.path = res.path,
                            !.opened = TRUE,
                            !.err = IF opened THEN ""
                                    ELSE IF res.path \in files THEN "open"
                                    ELSE "notfound"]
    /\ UNCHANGED <<createVars, teamVars>>

\* ProjectHandler.GetProject up to the call of the service.
GetProject(id) ==
    /\ fetch.op = "none" /\ fetch.st = "idle"
    /\ fetch' = [fetch EXCEPT !.op = "project", !.st = "check", !.id = id]
    /\ UNCHANGED <<createVars, teamVars>>

\* ProjectService.GetProject: validateProjectExists(id). The handler answers
\* an error of the service with 404.
GetProjectValidate ==
    /\ fetch.op = "project" /\ fetch.st = "check"
    /\ \E queried \in BOOLEAN :
          IF ~queried
          THEN fetch' = [fetch EXCEPT !.st = "done", !.err = "lookup"]
          ELSE IF validateProjectExists(db.projects, fetch.id)
          THEN fetch' = [fetch EXCEPT !.st = "exec", !.exists = "found"]
          ELSE fetch' = [fetch EXCEPT !.st = "done", !.exists = "absent",
                                      !.err = "notfound"]
    /\ UNCHANGED <<createVars, teamVars>>

\* SELECT file_path FROM <table> WHERE project_id = ?, in table order.
\* Variant: a read that leaves the paths out.
PathsOfProjectMut(table, id) == <<>>

PathsOfProject(table, id) ==
    LET rows == SelectSeq(table, LAMBDA row : row.project_id = id)
    IN  [k \in 1..Len(rows) |-> rows[k].file_path]

\* The orders in which a SELECT without ORDER BY may return its rows.
RowOrders(paths) ==
    {[k \in 1..Len(paths) |-> paths[f[k]]] : f \in Permutations(1..Len(paths))}

\* ProjectModel.GetProjectFullDetails: the project row (sql.ErrNoRows if
\* there is none), then the pitch-deck paths and the image paths. "query"
\* is a failed Query or Scan.
GetProjectFullDetails ==
    /\ fetch.op = "project" /\ fetch.st = "exec"
    /\ \E queried \in BOOLEAN :
          IF ~queried
          THEN fetch' = [fetch EXCEPT !.st = "done", !.err = "query"]
          ELSE IF ~ProjectExists(db.projects, fetch.id)
          THEN fetch' = [fetch EXCEPT !.st = "done", !.err = "norows"]
          ELSE \E pitchDecks \in RowOrders(PathsOfProject(db.pitch_decks, fetch.id)),
                  images \in RowOrders(PathsOfProject(db.images, fetch.id)) :
                  fetch' = [fetch EXCEPT !.st = "done",
                      !.project = [ID |-> fetch.id, PitchDecks |-> pitchDecks,
                                   Images |-> images]]
    /\ UNCHANGED <<createVars, teamVars>>

\* --------------------------------------------------- the looking_for column
\* The looking_for form values the clients send in SpecLookingFor.
FormValues == {"Investment", "Employees", "Partners", "Buyers", "investors",
               "Investment,Buyers", " Buyers", ""}

\* A form value as the sequence of its symbols: a comma, a space, or a run of
\* other characters.
Chars(v) ==
    CASE v = "Investment,Buyers" -> <<"Investment", ",", "Buyers">>
      [] v = " Buyers" -> <<" ", "Buyers">>
      [] v = "" -> <<>>
      [] OTHER -> <<v>>

\* strings.Join(elems, sep)
\* Variant: the elements joined without the separator.
RECURSIVE StringsJoinMut(_, _)
StringsJoinMut(elems, sep) ==
    IF elems = <<>> THEN <<>>
    ELSE Chars(Head(elems)) \o StringsJoinMut(Tail(elems), sep)

RECURSIVE StringsJoin(_, _)
StringsJoin(elems, sep) ==
    IF elems = <<>> THEN <<>>
    ELSE IF Len(elems) = 1 THEN Chars(elems[1])
    ELSE Chars(Head(elems)) \o <<sep>> \o StringsJoin(Tail(elems), sep)

\* strings.Split(s, sep) for a separator of one symbol: the pieces between
\* the separators, one piece more than there are separators.
RECURSIVE Split(_, _)
Split(s, sep) ==
    LET at == {i \in 1..Len(s) : s[i] = sep} IN
    IF at = {} THEN <<s>>
    ELSE LET first == CHOOSE i \in at : \A j \in at : i <= j
         IN  <<SubSeq(s, 1, first - 1)>> \o Split(SubSeq(s, first + 1, Len(s)), sep)

\* strings.TrimSpace(s)
TrimSpace(s) ==
    LET solid == {i \in 1..Len(s) : s[i] # " "} IN
    IF solid = {} THEN <<>>
    ELSE SubSeq(s, CHOOSE i \in solid : \A j \in solid : i <= j, Max(solid))

\* splitAndTrim(s, delim): the trimmed pieces that are not empty.
splitAndTrim(s, delim) ==
    LET parts == Split(s, delim)
        trimmed == [k \in 1..Len(parts) |-> TrimSpace(parts[k])]
    IN  SelectSeq(trimmed, LAMBDA part : part # <<>>)

\* parseLookingFor(s)
parseLookingFor(s) == IF s = <<>> THEN <<>> ELSE splitAndTrim(s, ",")

\* createProject as far as the looking_for column goes: the handler validates
\* the form values (400 if one is not a valid tag) and the service joins
\* them with commas into the string CreateProjectTx inserts.
StoreLookingFor ==
    /\ fetch.op = "looking_for" /\ fetch.st = "new"
    /\ IF ValidateLookingFor(fetch.lookingFor)
       THEN fetch' = [fetch EXCEPT !.st = "stored",
                                   !.stored = StringsJoin(fetch.lookingFor, ",")]
       ELSE fetch' = [fetch EXCEPT !.st = "done", !.err = "looking_for"]
    /\ UNCHANGED <<createVars, teamVars>>

\* getProject as far as the looking_for column goes: GetProjectFullDetails
\* scans the column and parses it.
ParseLookingFor ==
    /\ fetch.op = "looking_for" /\ fetch.st = "stored"
    /\ fetch' = [fetch EXCEPT !.st = "done", !.parsed = parseLookingFor(fetch.stored)]
    /\ UNCHANGED <<createVars, teamVars>>

\* ------------------------------------------------------- a process stop
\* The tables after the connection of a transaction that was not committed
\* is lost: the server discards its rows.
\* Variant: the rows of the unfinished transaction are in the tables.
AbandonedMut(d, t) ==
    [projects |-> d.projects \o t.projects,
     pitch_decks |-> d.pitch_decks \o t.pitch_decks,
     images |-> d.images \o t.images]

Abandoned(d, t) == d

\* A request the handler has accepted and not yet answered.
InProgress(r) == pc[r] \notin {"idle", "off", "done", "crashed"}

\* Request r is between the return of ProcessUploads with its SavedFiles and
\* the end of CreateProjectTx.
InWindow(r) == pc[r] \in {"tx_begin", "tx_project", "tx_pitch", "tx_images", "tx_commit"}

\* The process stops while a request is in that window: the goroutines and
\* handlers of all requests in progress take no further step, an open
\* transaction is lost, storage and the tables stay as they are. Requests
\* that had not arrived can arrive after the restart.
Crash ==
    /\ \E r \in Requests : InWindow(r)
    /\ pc' = [r \in Requests |-> IF InProgress(r) THEN "crashed" ELSE pc[r]]
    /\ tasks' = [r \in Requests |->
          [i \in 1..Len(tasks[r]) |->
              IF InProgress(r) /\ tasks[r][i].st \in {"running", "finished"}
              THEN [tasks[r][i] EXCEPT !.st = "killed"] ELSE tasks[r][i]]]
    /\ del' = [r \in Requests |->
          IF InProgress(r)
          THEN [del[r] EXCEPT !.st = [i \in 1..Len(del[r].list) |->
                   IF del[r].st[i] \in {"running", "removed"} THEN "killed"
                   ELSE del[r].st[i]]]
          ELSE del[r]]
    /\ tx' = [r \in Requests |->
          IF InProgress(r) /\ tx[r].st = "open"
          THEN [NoTx EXCEPT !.st = "lost"] ELSE tx[r]]
    /\ db' = Abandoned(Abandoned(db, tx[1]), tx[2])
    /\ UNCHANGED <<storeVars, lastId, project, quota, pool, teamVars, fetch, next, sem, wg,
                   resultsCh, errCh, fileResponse, puErr, resp>>

\* ------------------------------------------------------------ specification
Next ==
    \E r \in Requests :
       \/ StartRequest(r)
       \/ Launch(r)
       \/ \E i \in 1..MaxBatch : 
             \/ TaskRun(r, i)
             \/ TaskExit(r, i)
             \/ DelRemove(r, i)
             \/ DelExit(r, i)
       \/ Collect(r)
       \/ DelLaunch(r)
       \/ DelClose(r)
       \/ DelReturn(r)
       \/ TxBegin(r)
       \/ TxInsertProject(r)
       \/ TxInsertPitchDecks(r)
       \/ TxInsertImages(r)
       \/ TxCommit(r)

Spec == Init /\ [][Next]_vars

SpecBatch == InitBatch /\ [][Next]_vars

SpecNames == InitNames /\ [][Next]_vars

SpecRequest == InitRequest /\ [][Next]_vars

\* The steps of Next that requests with parts named l.PNG take: no
\* pitch-deck is accepted, so there is no pitch-deck batch insert.
NextPair ==
    \E r \in Requests :
       \/ StartRequest(r)
       \/ Launch(r)
       \/ \E i \in 1..MaxBatch :
             \/ TaskRun(r, i)
             \/ TaskExit(r, i)
             \/ DelRemove(r, i)
             \/ DelExit(r, i)
       \/ Collect(r)
       \/ DelLaunch(r)
       \/ DelClose(r)
       \/ DelReturn(r)
       \/ TxBegin(r)
       \/ TxInsertProject(r)
       \/ TxInsertImages(r)
       \/ TxCommit(r)

SpecPair == InitPair /\ [][NextPair]_vars

NextCrash == NextPair \/ Crash

SpecCrash == InitCrash /\ [][NextCrash]_vars

\* The steps of ProcessUploads and DeleteSavedFiles, with the arrival of the
\* request and db.Begin, whose failure makes the handler call
\* DeleteSavedFiles.
NextLive ==
    \E r \in Requests :
       \/ StartRequest(r)
       \/ Launch(r)
       \/ \E i \in 1..MaxBatch :
             \/ TaskRun(r, i)
             \/ TaskExit(r, i)
             \/ DelRemove(r, i)
             \/ DelExit(r, i)
       \/ Collect(r)
       \/ DelLaunch(r)
       \/ DelClose(r)
       \/ DelReturn(r)
       \/ TxBegin(r)

\* The Go scheduler runs a runnable goroutine eventually, and every file
\* operation is taken to return: a step that stays possible is taken.
SpecLive == InitLive /\ [][NextLive]_vars /\ WF_vars(NextLive)

\* The creation of projects without file parts (the steps of Next such a
\* request takes) together with the team-member routes.
NextTeam ==
    \/ \E r \in Requests :
          \/ StartRequest(r)
          \/ Collect(r)
          \/ TxBegin(r)
          \/ TxInsertProject(r)
          \/ TxCommit(r)
          \/ DelClose(r)
          \/ DelReturn(r)
    \/ \E c \in Callers :
          \/ AddTeamMemberToProject(c)
          \/ GetTeamMembersOfProject(c)
          \/ UpdateTeamMemberRole(c)
          \/ ValidateProject(c)
          \/ InsertTeamMember(c)
          \/ GetTeamMembers(c)
          \/ ModelUpdateTeamMemberRole(c)

SpecTeam == InitTeam /\ [][NextTeam]_vars

\* One createProject request with at most MaxNamed parts, and a getProject
\* request at any moment of it.
InitRead == InitWith({1}, MaxNamed, Filenames, 0, NoFetch)

NextRead ==
    \/ Next
    \/ \E id \in ProjectIDs : GetProject(id)
    \/ GetProjectValidate
    \/ GetProjectFullDetails

SpecRead == InitRead /\ [][NextRead]_vars

\* A file retrieval for one of RetrieveNames, with empty storage.
InitRetrieve ==
    \E filename \in RetrieveNames :
        InitWith({}, 0, Filenames, 0,
                 [NoFetch EXCEPT !.op = "file", !.st = "new", !.filename = filename])

\* RetrieveFile applied to each of RetrieveNames.
NextRetrieve == \E filename \in RetrieveNames : RetrieveFile(filename)

SpecRetrieve == InitRetrieve /\ [][NextRetrieve]_vars

\* A looking_for list of at most MaxTags of FormValues, stored and read back.
InitLookingFor ==
    \E lookingFor \in UNION {[1..n -> FormValues] : n \in 0..MaxTags} :
        InitWith({}, 0, Filenames, 0,
                 [NoFetch EXCEPT !.op = "looking_for", !.st = "new",
                                 !.lookingFor = lookingFor])

NextLookingFor == StoreLookingFor \/ ParseLookingFor

SpecLookingFor == InitLookingFor /\ [][NextLookingFor]_vars

\* ------------------------------------------------------------- properties
Range(f) == {f[i] : i \in DOMAIN f}

\* The storage paths at which the tasks of request r created a file.
SavedPaths(r) ==
    {Join(tasks[r][i].destDir, tasks[r][i].name) :
        i \in {j \in 1..Len(tasks[r]) : tasks[r][j].made}}

\* The storage paths the committed rows refer to.
CommittedPaths ==
    {Join("pdfs", row.file_path) : row \in Range(db.pitch_decks)}
    \cup {Join("images", row.file_path) : row \in Range(db.images)}

\* The paths the call of DeleteSavedFiles of request r was given.
DelPaths(r) == {Join(e.FileType, e.Filename) : e \in Range(del[r].list)}

\* An os.Remove of a file that was present failed in request r.
RemoveFailed(r) == \E e \in Range(del[r].errorCh) : e.cause = "remove"

\* The committed rows that stem from the CreateProjectTx call of request r.
ProjectRowsOf(r) == {k \in 1..Len(db.projects) : db.projects[k].id = project[r].ID}
PitchRowsOf(r) ==
    {k \in 1..Len(db.pitch_decks) :
        db.pitch_decks[k].file_path \in {tasks[r][i].name : i \in 1..Len(tasks[r])}}
ImageRowsOf(r) ==
    {k \in 1..Len(db.images) :
        db.images[k].file_path \in {tasks[r][i].name : i \in 1..Len(tasks[r])}}

InFlightSaves(r) == {i \in 1..Len(tasks[r]) : tasks[r][i].st \in {"running", "finished"}}
InFlightDeletes(r) == {i \in 1..Len(del[r].list) : del[r].st[i] \in {"running", "removed"}}

\* No operation on storage failed in request r: no directory creation, open,
\* create or copy of saveFile and no os.Remove of a present file.
NoStorageFailure(r) ==
    /\ \A e \in Range(errCh[r]) : e.k # "save"
    /\ ~RemoveFailed(r)

\* The storage paths of the files for which a task of r delivered a SavedFile.
SavedFilePaths(r) ==
    {Join(tasks[r][i].destDir, tasks[r][i].name) :
        i \in {j \in 1..Len(tasks[r]) :
                 [FileType |-> tasks[r][j].fileType, Filename |-> tasks[r][j].name]
                     \in Range(resultsCh[r])}}

\* C1: once every request that was received has returned, the files in
\* storage are exactly the files the committed rows refer to. Stated for the
\* behaviours in which no operation on storage failed, the case most
\* favourable to the code.
C1_StorageMatchesCommitted ==
    ((\A r \in Requests : pc[r] \in {"idle", "off", "done"})
       /\ (\A r \in Requests : NoStorageFailure(r)))
    => files = CommittedPaths

\* C2: when ProcessUploads has returned an error, no file that a task of the
\* batch saved is left in storage. Stated for the SavedFiles of the batch and
\* for the behaviours in which no os.Remove of a present file failed.
C2_NoFileAfterUploadError ==
    \A r \in Requests :
        (pc[r] = "done" /\ puErr[r].kind = "upload" /\ ~RemoveFailed(r))
        => SavedFilePaths(r) \cap files = {}

\* C3 as stated: after a failure of the writer, all files ProcessUploads
\* saved are gone when the error response is written.
C3_AllRemovedAfterWriterFailure ==
    \A r \in Requests :
        (pc[r] = "done" /\ resp[r].err.kind = "create")
        => SavedPaths(r) \cap files = {}

\* C3 amended: after a failure of the writer the handler has run
\* DeleteSavedFiles over exactly the files ProcessUploads saved, every
\* deletion has finished when the error response is written, and a file is
\* left only if its os.Remove failed, in which case the response names it.
C3_RemovedUnlessRemovalFailed ==
    \A r \in Requests :
        (pc[r] = "done" /\ resp[r].err.kind = "create")
        => /\ resp[r].status = 500
           /\ del[r].caller = "handler"
           /\ DelPaths(r) = SavedPaths(r)
           /\ Len(del[r].list) = Len(tasks[r])
           /\ \A i \in 1..Len(del[r].list) : del[r].st[i] = "done"
           /\ \A path \in SavedPaths(r) :
                 path \in files
                 => \E e \in Range(resp[r].err.del) : e = DeleteError(path, "remove")

\* A writer failure after three uploads, a pitch-deck among them, were saved,
\* answered with all three files removed.
C3_Witness ==
    \E r \in Requests :
        /\ pc[r] = "done" /\ resp[r].err.kind = "create"
        /\ Len(del[r].list) = 3
        /\ \E e \in Range(del[r].list) : e.FileType = "pdfs"
        /\ files = {}

\* C4: when every task of a request delivered a SavedFile and the writer
\* committed, the response carries a Project whose pitch-deck list holds
\* exactly the generated names of the pitch-deck uploads, one entry each,
\* likewise for the images, and every listed name is a file of the pdfs
\* resp. images directory.
C4_ProjectListsMatchStorage ==
    \A r \in Requests :
        (pc[r] = "done" /\ Len(resultsCh[r]) = Len(tasks[r]) /\ tx[r].st = "committed")
        => LET pdfTasks == {i \in 1..Len(tasks[r]) : tasks[r][i].fileType = "pdf"}
               imageTasks == {i \in 1..Len(tasks[r]) : tasks[r][i].fileType = "images"}
               p == resp[r].project
           IN  /\ resp[r].status = 200
               /\ Len(p.PitchDecks) = Cardinality(pdfTasks)
               /\ Range(p.PitchDecks) = {tasks[r][i].name : i \in pdfTasks}
               /\ Len(p.Images) = Cardinality(imageTasks)
               /\ Range(p.Images) = {tasks[r][i].name : i \in imageTasks}
               /\ \A n \in Range(p.PitchDecks) : n # <<>> /\ Join("pdfs", n) \in files
               /\ \A n \in Range(p.Images) : n # <<>> /\ Join("images", n) \in files

\* A successful creation with pitch-decks and images, three files in all.
C4_Witness ==
    \E r \in Requests :
        /\ resp[r].status = 200
        /\ Len(resp[r].project.PitchDecks) >= 1
        /\ Len(resp[r].project.Images) >= 1
        /\ Len(tasks[r]) = 3

\* C5: in every state at most maxConcurrents save operations of a request
\* hold a slot of ProcessUploads' semaphore and at most maxConcurrents
\* deletions hold a slot of DeleteSavedFiles' semaphore, also for batches
\* larger than maxConcurrents.
C5_AtMostKInFlight ==
    \A r \in Requests :
        /\ Cardinality(InFlightSaves(r)) <= maxConcurrents
        /\ Cardinality(InFlightDeletes(r)) <= maxConcurrents

\* A batch larger than the capacity: all slots of the deleter are taken and a
\* deletion waits (the saves of the same request went through the same).
C5_Witness ==
    \E r \in Requests :
        /\ Len(tasks[r]) > maxConcurrents
        /\ Len(del[r].list) > maxConcurrents
        /\ Cardinality(InFlightDeletes(r)) = maxConcurrents
        /\ del[r].next <= Len(del[r].list)

\* C6: CreateProjectTx is all-or-nothing. While the call has not committed,
\* and after it returned an error, none of its rows is in the tables; after
\* it committed, its project row and one row per path are. The response
\* carries a Project exactly if the transaction committed.
C6_AllOrNothing ==
    \A r \in Requests :
        /\ tx[r].st # "committed"
           => /\ project[r].ID # 0 => ProjectRowsOf(r) = {}
              /\ PitchRowsOf(r) = {}
              /\ ImageRowsOf(r) = {}
        /\ tx[r].st = "committed"
           => /\ Cardinality(ProjectRowsOf(r)) = 1
              /\ {db.pitch_decks[k] : k \in PitchRowsOf(r)}
                   = Range(PathRows(project[r].ID, project[r].PitchDecks))
              /\ {db.images[k] : k \in ImageRowsOf(r)}
                   = Range(PathRows(project[r].ID, project[r].Images))
        /\ pc[r] = "done"
           => IF tx[r].st = "committed"
              THEN resp[r].status = 200 /\ resp[r].project = project[r]
                   /\ resp[r].err = NoErr
              ELSE resp[r].status \in {400, 500} /\ resp[r].project = NoProject
                   /\ resp[r].err # NoErr

\* The image batch insert failed after the project row and the pitch-deck
\* rows were inserted in the transaction: nothing of it is in the tables.
C6_Witness ==
    \E r \in Requests :
        /\ pc[r] = "done"
        /\ tx[r].err = "images"
        /\ Len(project[r].PitchDecks) >= 1
        /\ db.projects = <<>> /\ db.pitch_decks = <<>>

\* C7: a request whose ProcessUploads failed never began a transaction and
\* has no row in any table; the handler returned right after the failure.
C7_NoDatabaseAfterUploadFailure ==
    \A r \in Requests :
        puErr[r].kind = "upload"
        => /\ pc[r] = "done"
           /\ tx[r] = NoTx
           /\ project[r].ID = 0
           /\ PitchRowsOf(r) = {} /\ ImageRowsOf(r) = {}

C7_Witness ==
    \E r \in Requests :
        /\ pc[r] = "done" /\ puErr[r].kind = "upload"
        /\ resp[r].status = 500
        /\ Len(resultsCh[r]) >= 1

\* C8: ProcessUploads has decided the outcome of a batch (started the
\* compensation or returned the SavedFiles) only when every task of the
\* batch was launched and has finished, each with one outcome.
C8_DecidesAfterAllTasks ==
    \A r \in Requests :
        pc[r] \notin {"idle", "off", "pu"}
        => /\ \A i \in 1..Len(tasks[r]) : tasks[r][i].st = "done"
           /\ Len(resultsCh[r]) + Len(errCh[r]) = Len(tasks[r])

\* The first task of a batch of three failed first; the two others still ran
\* to completion and saved their files before the batch was decided.
C8_Witness ==
    \E r \in Requests :
        /\ pc[r] = "del" /\ del[r].caller = "pu"
        /\ Len(errCh[r]) = 1 /\ errCh[r][1].task = 1
        /\ Len(resultsCh[r]) = 2

\* C9: when ProcessUploads has returned an error, every deletion that
\* DeleteSavedFiles started for the batch has completed, one for each file
\* that was saved, and the SavedFiles value returned is empty.
C9_ReturnsAfterCompensation ==
    \A r \in Requests :
        puErr[r].kind = "upload"
        => /\ del[r].caller = "pu"
           /\ Len(del[r].list) = Len(resultsCh[r])
           /\ \A i \in 1..Len(del[r].list) : del[r].st[i] = "done"
           /\ del[r].sem = 0 /\ del[r].wg = 0
           /\ fileResponse[r] = EmptySavedFiles

\* A failed batch in which two files had been saved and were compensated.
C9_Witness ==
    \E r \in Requests :
        /\ puErr[r].kind = "upload"
        /\ Len(del[r].list) = 2

\* The allow-lists as the claim states them: .pdf for pitch-decks; .jpg,
\* .jpeg, .png, .svg for images; letter case ignored.
C10_Allowed(t) ==
    LET e == ToLower(Ext(t.header))
    IN  \/ t.fileType = "pdf" /\ e = ExtPdf
        \/ t.fileType = "images" /\ e \in {ExtJpg, ExtJpeg, ExtPng, ExtSvg}

\* C10: the step in which a task runs records exactly one outcome. For an
\* extension outside the allow-list of the category it is one "invalid"
\* failure, and storage (files and directories) is untouched; for an allowed
\* extension it is either one SavedFile or one failure of the write.
C10_TaskOutcome ==
    [][\A r \in Requests : \A i \in 1..Len(tasks[r]) :
          (tasks[r][i].st = "running" /\ tasks'[r][i].st = "finished")
          => LET t == tasks[r][i] IN
             IF ~C10_Allowed(t)
             THEN /\ files' = files /\ dirs' = dirs
                  /\ resultsCh'[r] = resultsCh[r]
                  /\ Len(errCh'[r]) = Len(errCh[r]) + 1
                  /\ SubSeq(errCh'[r], 1, Len(errCh[r])) = errCh[r]
                  /\ errCh'[r][Len(errCh'[r])].k = "invalid"
                  /\ errCh'[r][Len(errCh'[r])].task = i
             ELSE \/ /\ errCh'[r] = errCh[r]
                     /\ Len(resultsCh'[r]) = Len(resultsCh[r]) + 1
                     /\ SubSeq(resultsCh'[r], 1, Len(resultsCh[r])) = resultsCh[r]
                     /\ Join(t.destDir, resultsCh'[r][Len(resultsCh'[r])].Filename) \in files'
                  \/ /\ resultsCh'[r] = resultsCh[r]
                     /\ Len(errCh'[r]) = Len(errCh[r]) + 1
                     /\ SubSeq(errCh'[r], 1, Len(errCh[r])) = errCh[r]
                     /\ errCh'[r][Len(errCh'[r])].k = "save"
                     /\ errCh'[r][Len(errCh'[r])].task = i
      ]_vars

\* A task with an upper-case extension outside its category's allow-list has
\* recorded its failure; storage has neither a directory nor a file.
C10_Witness ==
    \E r \in Requests :
        /\ Len(tasks[r]) = 1 /\ tasks[r][1].st = "finished"
        /\ tasks[r][1].fileType = "pdf"
        /\ Ext(tasks[r][1].header) = <<".", "P", "N", "G">>
        /\ Len(errCh[r]) = 1 /\ errCh[r][1].k = "invalid"
        /\ files = {} /\ dirs = {}

\* The failures of request r are all rejections of a disallowed extension.
OnlyInvalid(r) == errCh[r] # <<>> /\ \A e \in Range(errCh[r]) : e.k = "invalid"

\* C11 as stated: a request rejected for a validation reason (a form value,
\* or a file with a disallowed extension) has written no file and made no
\* directory, and has executed no database statement.
C11_NoSideEffectOnValidationFailure ==
    \A r \in Requests :
        (pc[r] = "done"
           /\ (resp[r].err.kind = "validation"
                \/ (puErr[r].kind = "upload" /\ OnlyInvalid(r))))
        => /\ \A i \in 1..Len(tasks[r]) : ~tasks[r][i].made /\ ~tasks[r][i].mkdir
           /\ tx[r] = NoTx

\* C11 amended: a request rejected for its project_value or looking_for is
\* answered 400 before any work: it has no upload task, no transaction and
\* no deletion. A file with a disallowed extension is rejected inside its own
\* task, which writes nothing; the request then executes no database
\* statement and returns no Project, and the files its valid siblings wrote
\* are the ones handed to DeleteSavedFiles.
C11_ValidationFrame ==
    \A r \in Requests :
        /\ resp[r].err.kind = "validation"
           => /\ pc[r] = "done" /\ resp[r].status = 400
              /\ tasks[r] = <<>> /\ resultsCh[r] = <<>> /\ errCh[r] = <<>>
              /\ tx[r] = NoTx /\ del[r] = NoDel
              /\ project[r] = NoProject /\ puErr[r] = NoErr
        /\ \A i \in 1..Len(tasks[r]) :
              (tasks[r][i].st \in {"finished", "done"} /\ ~C10_Allowed(tasks[r][i]))
              => /\ ~tasks[r][i].made /\ ~tasks[r][i].mkdir /\ tasks[r][i].name = <<>>
                 /\ InvalidError(i, tasks[r][i]) \in Range(errCh[r])
        /\ (\E e \in Range(errCh[r]) : e.k = "invalid")
           => /\ tx[r] = NoTx /\ project[r].ID = 0
              /\ pc[r] = "done"
                 => /\ resp[r].status = 500 /\ resp[r].project = NoProject
                    /\ del[r].caller = "pu" /\ del[r].list = resultsCh[r]

\* A batch rejected only for the disallowed extension of one file, after
\* its sibling was written to storage.
C11_Witness ==
    \E r \in Requests :
        /\ pc[r] = "done" /\ puErr[r].kind = "upload" /\ OnlyInvalid(r)
        /\ Len(errCh[r]) = 1 /\ Len(resultsCh[r]) = 1
        /\ \A i \in 1..Len(tasks[r]) : tasks[r][i].made <=> C10_Allowed(tasks[r][i])

\* The tasks of request r that delivered no SavedFile.
FailedTasks(r) ==
    {i \in 1..Len(tasks[r]) :
        [FileType |-> tasks[r][i].fileType, Filename |-> tasks[r][i].name]
            \notin Range(resultsCh[r])}

\* C12: when ProcessUploads returns after a compensation in which deletions
\* failed, its error (which the handler writes in the response) holds one
\* failure for every task that delivered no SavedFile, a rejected extension
\* or a failed write, and the messages of all failed deletions.
C12_OriginalFailuresKept ==
    \A r \in Requests :
        (puErr[r].kind = "upload" /\ del[r].failed # {})
        => /\ Len(puErr[r].save) = Cardinality(FailedTasks(r))
           /\ \A i \in FailedTasks(r) :
                 IF C10_Allowed(tasks[r][i])
                 THEN \E e \in Range(puErr[r].save) : e.k = "save" /\ e.task = i
                 ELSE InvalidError(i, tasks[r][i]) \in Range(puErr[r].save)
           /\ puErr[r].save # <<>>
           /\ Len(puErr[r].del) = Cardinality(del[r].failed)
           /\ resp[r].err = puErr[r]

\* A batch with a rejected extension whose saved image could not be
\* removed: the error holds the rejection and the failed deletion.
C12_Witness ==
    \E r \in Requests :
        /\ puErr[r].kind = "upload"
        /\ Len(puErr[r].save) = 1 /\ puErr[r].save[1].k = "invalid"
        /\ Len(puErr[r].del) = 1 /\ puErr[r].del[1].cause = "remove"
        /\ puErr[r].del[1].path.dir = "images"

\* DeleteSavedFiles has returned to its caller in request r.
DeleteReturned(r) == del[r].caller # "none" /\ pc[r] = "done"

\* The error DeleteSavedFiles returned in request r, as its caller reports it.
DeleteErrorOf(r) == resp[r].err.del

\* C13: when DeleteSavedFiles has returned, the removal of every descriptor
\* of its input was attempted and has finished, whatever the number of
\* removals that failed; its error names exactly the paths whose os.Remove
\* failed, once each, and is nil exactly if no removal failed. A descriptor
\* whose removal did not fail has no file at its path.
C13_DeleteAttemptsAllReportsFailed ==
    \A r \in Requests :
        DeleteReturned(r)
        => LET d == del[r]
               pathOf(i) == Join(d.list[i].FileType, d.list[i].Filename)
           IN  /\ \A i \in 1..Len(d.list) : d.st[i] = "done"
               /\ {e.path : e \in Range(DeleteErrorOf(r))} = {pathOf(i) : i \in d.failed}
               /\ Len(DeleteErrorOf(r)) = Cardinality(d.failed)
               /\ (DeleteErrorOf(r) = <<>>) <=> (d.failed = {})
               /\ \A i \in 1..Len(d.list) : i \notin d.failed => pathOf(i) \notin files

\* Two files handed to DeleteSavedFiles: the removal of the first failed,
\* the second was still attempted and removed its file.
C13_Witness ==
    \E r \in Requests :
        /\ DeleteReturned(r)
        /\ Len(del[r].list) = 2
        /\ del[r].failed = {1}
        /\ Join(del[r].list[1].FileType, del[r].list[1].Filename) \in files
        /\ Join(del[r].list[2].FileType, del[r].list[2].Filename) \notin files
        /\ Len(DeleteErrorOf(r)) = 1

\* C14: the step in which a deletion goroutine calls os.Remove for a path at
\* which storage has no file records a failure of that descriptor and sends
\* one message naming the path; and the step in which DeleteSavedFiles
\* returns hands all messages sent to its caller's error.
C14_AbsentFileReported ==
    [][\A r \in Requests :
         /\ \A i \in 1..Len(del[r].list) :
               LET path == Join(del[r].list[i].FileType, del[r].list[i].Filename) IN
               (/\ del[r].st[i] = "running"
                /\ i \in DOMAIN del'[r].st
                /\ del'[r].st[i] = "removed"
                /\ path \notin files)
               => /\ i \in del'[r].failed
                  /\ del'[r].errorCh = Append(del[r].errorCh, DeleteError(path, "notexist"))
         /\ (pc[r] = "del" /\ pc'[r] = "done") => resp'[r].err.del = del[r].errorCh
      ]_vars

\* DeleteSavedFiles was given a descriptor of a path at which no file exists
\* and has returned an error that names it, while the batch's file is stored
\* elsewhere.
C14_Witness ==
    \E r \in Requests :
        /\ DeleteReturned(r)
        /\ \E e \in Range(DeleteErrorOf(r)) :
              /\ e.cause = "notexist"
              /\ e.path \in DelPaths(r) /\ e.path \notin files
        /\ files # {}

\* C15: a request whose CreateProjectTx failed is answered 500 with one
\* error and no Project, after the handler's DeleteSavedFiles returned. The
\* error holds the failure of the writer; it holds in addition the messages
\* of the deletions that failed, and nothing else if none failed.
C15_WriterFailureReported ==
    \A r \in Requests :
        (pc[r] = "done" /\ tx[r].err # "")
        => /\ resp[r].status = 500
           /\ resp[r].project = NoProject
           /\ del[r].caller = "handler" /\ del[r].closed
           /\ resp[r].err.kind = "create"
           /\ resp[r].err.cause = tx[r].err
           /\ resp[r].err.save = <<>>
           /\ Len(resp[r].err.del) = Cardinality(del[r].failed)
           /\ del[r].failed = {} => resp[r].err = CreateError(tx[r].err, <<>>)

\* The commit failed and one of the two saved files could not be removed:
\* the response reports the commit failure and the failed deletion.
C15_Witness ==
    \E r \in Requests :
        /\ pc[r] = "done" /\ tx[r].err = "commit"
        /\ Len(del[r].list) = 2 /\ Cardinality(del[r].failed) = 1
        /\ resp[r].err.cause = "commit" /\ Len(resp[r].err.del) = 1

\* The rows of a table that carry project id, in table order.
RowsOfProject(table, id) == SelectSeq(table, LAMBDA row : row.project_id = id)

\* C16: after CreateProjectTx committed in request r, the Project of the
\* response carries the id of the one project row the call inserted, no
\* other project row has that id, and the pitch-deck rows under that id are
\* one (id, path) row per pitch-deck path of the Project, in order; likewise
\* the image rows. An empty list leaves the table without a row of that id.
C16_CommittedRowsMatchProject ==
    \A r \in Requests :
        tx[r].st = "committed"
        => LET p == resp[r].project IN
           /\ resp[r].status = 200
           /\ p.ID > 0
           /\ tx[r].projects = <<[id |-> p.ID]>>
           /\ Cardinality({k \in 1..Len(db.projects) : db.projects[k].id = p.ID}) = 1
           /\ RowsOfProject(db.pitch_decks, p.ID)
                = [i \in 1..Len(p.PitchDecks) |->
                      [project_id |-> p.ID, file_path |-> p.PitchDecks[i]]]
           /\ RowsOfProject(db.images, p.ID)
                = [i \in 1..Len(p.Images) |->
                      [project_id |-> p.ID, file_path |-> p.Images[i]]]
           /\ p.PitchDecks = <<>> => RowsOfProject(db.pitch_decks, p.ID) = <<>>
           /\ p.Images = <<>> => RowsOfProject(db.images, p.ID) = <<>>

\* A project committed with two pitch-decks and no image: two pitch-deck
\* rows, no image row.
C16_Witness ==
    \E r \in Requests :
        /\ tx[r].st = "committed" /\ resp[r].status = 200
        /\ Len(resp[r].project.PitchDecks) = 2 /\ resp[r].project.Images = <<>>
        /\ Len(db.pitch_decks) = 2 /\ db.images = <<>>

\* The projects table has a row of this id.
ProjectPresent(id) == \E row \in Range(db.projects) : row.id = id

\* C17: when the service checks the project of an add-team-member request
\* and the projects table has no row of the id of the request path, the
\* request ends in that step with an error (the not-found error, unless the
\* existence query itself failed) and team_members and its id counter are
\* unchanged; a request that ended so has executed no statement on
\* team_members and returns no member.
C17_AddToAbsentProject ==
    /\ [](\A c \in Callers :
            (call[c].op = "add" /\ call[c].err \in {"notfound", "lookup"})
            => /\ call[c].st = "done" /\ call[c].status = 500
               /\ ~call[c].touched /\ call[c].member.ID = 0)
    /\ [][\A c \in Callers :
            (/\ call[c].op = "add" /\ call[c].st = "check"
             /\ call'[c].st # "check"
             /\ ~ProjectPresent(call[c].projectID))
            => /\ call'[c].st = "done"
               /\ call'[c].err \in {"notfound", "lookup"}
               /\ call'[c].err = "notfound" <=> call'[c].exists = "absent"
               /\ team_members' = team_members
               /\ lastMemberId' = lastMemberId
         ]_vars

\* A member was added to project 1; a later add for project 2, which does
\* not exist, was refused and the table still holds the one row.
C17_Witness ==
    \E c \in Callers :
        /\ call[c].op = "add" /\ call[c].st = "done"
        /\ call[c].projectID = 2 /\ ~ProjectPresent(2)
        /\ call[c].err = "notfound" /\ ~call[c].touched
        /\ Len(team_members) = 1 /\ team_members[1].project_id = 1

\* team_members has a row of this id.
MemberPresent(id) == \E row \in Range(team_members) : row.id = id

\* C18: the step in which the model runs the UPDATE of an update-role
\* request for a member id without a row leaves team_members unchanged and
\* ends the request with an error, answered 500: the error for zero affected
\* rows, unless Exec or RowsAffected itself failed.
C18_UpdateOfAbsentMember ==
    [][\A c \in Callers :
          (/\ call[c].op = "update" /\ call[c].st = "exec"
           /\ call'[c].st = "done"
           /\ ~MemberPresent(call[c].memberID))
          => /\ team_members' = team_members
             /\ call'[c].status = 500
             /\ call'[c].err \in {"norows", "exec", "rowsaffected"}
      ]_vars

\* The table holds member 1; an update of member 2 ended with the error for
\* zero affected rows and member 1 kept its role.
C18_Witness ==
    \E c \in Callers :
        /\ call[c].op = "update" /\ call[c].st = "done"
        /\ call[c].memberID = 2 /\ ~MemberPresent(2)
        /\ call[c].err = "norows" /\ call[c].status = 500
        /\ Len(team_members) = 1 /\ team_members[1].id = 1
        /\ team_members[1].role # call[c].role

\* C19 as stated: a team-member request of any of the three routes has
\* executed a statement on team_members only after its check found the
\* owning project.
C19_CheckBeforeEveryAccess ==
    \A c \in Callers : call[c].touched => call[c].exists = "found"

\* C19 amended: an add or list request has executed a statement on
\* team_members only after validateProjectExists found its project, whose
\* row is then in the projects table, and none if the project was absent.
\* An update-role request makes no check of a project: it has executed its
\* UPDATE whenever it passed the handler's checks of the payload.
C19_CheckBeforeAddAndList ==
    \A c \in Callers :
        /\ call[c].op \in {"add", "list"}
           => /\ call[c].touched
                 => call[c].exists = "found" /\ ProjectPresent(call[c].projectID)
              /\ call[c].st = "exec" => call[c].exists = "found"
              /\ call[c].exists = "absent" => ~call[c].touched /\ call[c].st = "done"
        /\ call[c].op = "update"
           => /\ call[c].exists = ""
              /\ call[c].st = "done" => (call[c].touched <=> call[c].status # 400)

\* An add request for project 1 inserted its member after the check found
\* the project, and an update-role request changed that member's role
\* without a check.
C19_Witness ==
    \E c, d \in Callers :
        /\ call[c].op = "add" /\ call[c].status = 201 /\ call[c].exists = "found"
        /\ call[c].touched /\ ProjectPresent(call[c].projectID)
        /\ call[d].op = "update" /\ call[d].status = 204
        /\ call[d].memberID = call[c].member.ID
        /\ call[d].touched /\ call[d].exists = ""

\* C20: every row of team_members carries the id of a row of projects. A
\* request that added a member was answered after validateProjectExists
\* found the project of its path, and the row of the returned member id
\* carries the project id of the path, whatever the payload said.
C20_MembersReferenceProjects ==
    /\ \A row \in Range(team_members) : ProjectPresent(row.project_id)
    /\ \A c \in Callers :
          (call[c].op = "add" /\ call[c].status = 201)
          => /\ call[c].exists = "found"
             /\ call[c].member.ProjectID = call[c].projectID
             /\ \E k \in 1..Len(team_members) :
                   /\ team_members[k].id = call[c].member.ID
                   /\ team_members[k].project_id = call[c].projectID
             /\ Cardinality({k \in 1..Len(team_members) :
                                team_members[k].id = call[c].member.ID}) = 1

\* Two members were added to project 1, each by its own request.
C20_Witness ==
    /\ Len(team_members) = 2
    /\ \A c \in Callers : call[c].op = "add" /\ call[c].status = 201
    /\ \A row \in Range(team_members) : row.project_id = 1

\* e is the last element of path: the non-empty stretch without separator
\* that only separators follow and that a separator or nothing precedes.
IsLastElement(e, path) ==
    \E i \in 1..Len(path), j \in 1..Len(path) :
        /\ i <= j /\ e = SubSeq(path, i, j)
        /\ \A k \in i..j : path[k] # "/"
        /\ i = 1 \/ path[i - 1] = "/"
        /\ \A k \in (j + 1)..Len(path) : path[k] = "/"

\* The directory the claim assigns to an extension, "" for any other.
C21_DirOf(ext) ==
    IF ToLower(ext) = ExtPdf THEN "pdfs"
    ELSE IF ToLower(ext) \in {ExtJpg, ExtJpeg, ExtPng, ExtSvg} THEN "images"
    ELSE ""

\* C21: for every file name RetrieveFile was called with, either os.Open was
\* called with a path whose directory is pdfs or images and whose name is
\* the last element of the file name (no separator, not "." or ".."), with
\* an extension of that directory; or no file was opened and the call
\* returned the error for an unsupported extension, the last element having
\* an extension of neither directory.
C21_OnlyDirectChildren ==
    (fetch.op = "file" /\ fetch.st = "done")
    => IF fetch.opened
       THEN /\ fetch.path.dir \in {"pdfs", "images"}
            /\ IsLastElement(fetch.path.name, fetch.filename)
            /\ fetch.path.name \notin {<<".">>, <<".", ".">>}
            /\ C21_DirOf(Ext(fetch.path.name)) = fetch.path.dir
       ELSE /\ fetch.err = "unsupported"
            /\ \A e \in {SubSeq(fetch.filename, i, j) :
                            i \in 1..Len(fetch.filename), j \in 1..Len(fetch.filename)} :
                  IsLastElement(e, fetch.filename) => C21_DirOf(Ext(e)) = ""

\* RetrieveFile("../a.PdF") opened pdfs/a.PdF.
C21_Witness ==
    /\ fetch.st = "done" /\ fetch.opened
    /\ fetch.filename = <<".", ".", "/", "a", ".", "P", "d", "F">>
    /\ fetch.path = Join("pdfs", <<"a", ".", "P", "d", "F">>)

\* The tasks of request r that stored the file of this generated name.
TasksNamed(r, name) == {i \in 1..Len(tasks[r]) : tasks[r][i].made /\ tasks[r][i].name = name}

WritingTasks(r) == {i \in 1..Len(tasks[r]) : tasks[r][i].name # <<>>}

TaskPath(r, i) == Join(tasks[r][i].destDir, tasks[r][i].name)

\* C24: the storage paths of two tasks of one batch that reached the storage
\* write differ, whatever their original names and categories, and the step
\* in which a task writes its file writes a path that held no file before.
\* The identifiers uuid.New draws are taken to be distinct.
C24_NoSharedStoragePath ==
    /\ [](\A r \in Requests : \A i, j \in WritingTasks(r) :
             i # j => TaskPath(r, i) # TaskPath(r, j))
    /\ [][\A r \in Requests : \A i \in 1..Len(tasks[r]) :
             (tasks[r][i].st = "running" /\ tasks'[r][i].st = "finished"
              /\ tasks'[r][i].made)
             => Join(tasks'[r][i].destDir, tasks'[r][i].name) \notin files
       ]_vars

\* Two uploads with the same original name in the same category were both
\* stored, at two paths.
C24_Witness ==
    \E r \in Requests :
       /\ Len(tasks[r]) = 2
       /\ tasks[r][1].header = tasks[r][2].header
       /\ tasks[r][1].fileType = tasks[r][2].fileType
       /\ tasks[r][1].made /\ tasks[r][2].made
       /\ {TaskPath(r, 1), TaskPath(r, 2)} \subseteq files
       /\ TaskPath(r, 1) # TaskPath(r, 2)

\* The storage paths at which the tasks of request r wrote a file.
WrittenPaths(r) == {TaskPath(r, i) : i \in {j \in 1..Len(tasks[r]) : tasks[r][j].made}}

\* C25: in the compensation that ProcessUploads runs for a failed batch, the
\* path DeleteSavedFiles removes for every saved file is a path at which a
\* task of the batch wrote a file.
C25_CompensationPathIsSavePath ==
    \A r \in Requests :
       (pc[r] = "del" /\ del[r].caller = "pu")
       => \A i \in 1..Len(del[r].list) :
             Join(del[r].list[i].FileType, del[r].list[i].Filename) \in WrittenPaths(r)

\* C26: once a request has returned, no file is left at the destination of
\* a task whose saveFile created the file and then failed in the stream
\* copy.
C26_NoFileAfterCopyFailure ==
    \A r \in Requests :
       pc[r] = "done"
       => \A k \in 1..Len(errCh[r]) :
             (errCh[r][k].k = "save" /\ errCh[r][k].cause = "copy")
             => TaskPath(r, errCh[r][k].task) \notin files

\* The failures of CreateProjectTx after db.Begin() succeeded.
FailuresAfterBegin == {"insert", "lastid", "pitch_decks", "images", "commit"}

InUploadsOrDelete(r) == pc[r] \in {"pu", "del"}

\* C28: the request of SpecLive (request 1), once it entered ProcessUploads
\* or DeleteSavedFiles, leaves it, for a batch of no, of fewer and of more
\* than maxConcurrents files. Meanwhile a started task or deletion always finds a
\* free slot in the channel it sends on, the slots taken in a semaphore are
\* those of the started tasks that have not released, and when the wait of
\* ProcessUploads or DeleteSavedFiles has returned every task has completed
\* and every slot is free.
C28_UploadsAndDeletesTerminate ==
    /\ InUploadsOrDelete(1) ~> ~InUploadsOrDelete(1)
    /\ [](\A r \in Requests :
            /\ InFlightSaves(r) # {} => pc[r] = "pu"
            /\ (\E i \in 1..Len(tasks[r]) : tasks[r][i].st = "running")
               => Len(errCh[r]) + Len(resultsCh[r]) < Len(tasks[r])
            /\ sem[r] = Cardinality(InFlightSaves(r))
            /\ sem[r] <= maxConcurrents
            /\ InFlightDeletes(r) # {} => (pc[r] = "del" /\ ~del[r].closed)
            /\ (\E i \in 1..Len(del[r].list) : del[r].st[i] = "running")
               => Len(del[r].errorCh) < Len(del[r].list)
            /\ del[r].sem = Cardinality(InFlightDeletes(r))
            /\ del[r].sem <= maxConcurrents
            /\ pc[r] \notin {"idle", "off", "pu"}
               => \A i \in 1..Len(tasks[r]) : tasks[r][i].st = "done"
            /\ del[r].closed
               => \A i \in 1..Len(del[r].list) : del[r].st[i] = "done")

\* A batch of more than maxConcurrents files, one of them rejected: the
\* request returned after the compensation of more than one saved file.
C28_Witness ==
    \E r \in Requests :
       /\ pc[r] = "done"
       /\ Len(tasks[r]) > maxConcurrents
       /\ del[r].caller = "pu"
       /\ Len(del[r].list) >= 2
       /\ \E k \in 1..Len(errCh[r]) : errCh[r][k].k = "invalid"

\* The positions in errCh and in resultsCh of the messages of task i of
\* request r: a failure names its task, a SavedFile carries the name the
\* task generated.
FailuresOf(r, i) == {k \in 1..Len(errCh[r]) : errCh[r][k].task = i}

SavedFilesOf(r, i) ==
    {k \in 1..Len(resultsCh[r]) :
        resultsCh[r][k].Filename = GenerateUniqueFilename(tasks[r][i].header, UUIDs[r][i])}

\* C29: a task that has run its body has one message in the two channels
\* together, a task that has not has none, and every message is the message
\* of a task; so once the wait of ProcessUploads has returned the SavedFiles
\* and the failures collected are together as many as the uploads of the
\* batch.
C29_OneOutcomePerTask ==
    \A r \in Requests :
       /\ \A i \in 1..Len(tasks[r]) :
             Cardinality(FailuresOf(r, i)) + Cardinality(SavedFilesOf(r, i))
                = IF tasks[r][i].st \in {"finished", "done"} THEN 1 ELSE 0
       /\ \A k \in 1..Len(errCh[r]) : errCh[r][k].task \in 1..Len(tasks[r])
       /\ \A k \in 1..Len(resultsCh[r]) :
             \E i \in 1..Len(tasks[r]) : k \in SavedFilesOf(r, i)
       /\ pc[r] \notin {"idle", "off", "pu"}
          => Len(resultsCh[r]) + Len(errCh[r]) = Len(tasks[r])

\* A batch of three, more than maxConcurrents: after the wait two SavedFiles
\* and one failure were collected.
C29_Witness ==
    \E r \in Requests :
       /\ pc[r] = "del"
       /\ Len(tasks[r]) = 3
       /\ Len(resultsCh[r]) = 2
       /\ Len(errCh[r]) = 1

\* The storage paths of the files a committed project of request r lists.
ProjectPaths(r) ==
    {Join("pdfs", name) : name \in Range(resp[r].project.PitchDecks)}
       \cup {Join("images", name) : name \in Range(resp[r].project.Images)}

\* C30: with concurrent requests, every file that a step removes from
\* storage is removed by a deletion task of a request that wrote it, the
\* descriptors a request hands to DeleteSavedFiles name files of its own
\* tasks, and the files of a project answered 200 stay in storage.
C30_CompensationRemovesOwnFiles ==
    /\ [][\A path \in files \ files' :
             \E r \in Requests : \E i \in 1..Len(del[r].list) :
                /\ del[r].st[i] = "running" /\ del'[r].st[i] = "removed"
                /\ path = Join(del[r].list[i].FileType, del[r].list[i].Filename)
                /\ path \in WrittenPaths(r)
                /\ \A q \in Requests \ {r} : path \notin WrittenPaths(q)
       ]_vars
    /\ [](\A r \in Requests :
            /\ \A i \in 1..Len(del[r].list) :
                  del[r].list[i].Filename \in {tasks[r][j].name : j \in 1..Len(tasks[r])}
            /\ resp[r].status = 200 => ProjectPaths(r) \subseteq files)

\* Request 2 failed in ProcessUploads and removed the file it had saved,
\* while the file of the project request 1 committed is in storage.
C30_Witness ==
    /\ resp[1].status = 200 /\ Len(resp[1].project.Images) = 1
    /\ ProjectPaths(1) \subseteq files
    /\ pc[2] = "done" /\ del[2].caller = "pu"
    /\ Len(del[2].list) = 1 /\ del[2].failed = {}
    /\ WrittenPaths(2) # {} /\ WrittenPaths(2) \cap files = {}

\* Request r was stopped by a process stop after ProcessUploads had returned
\* its SavedFiles and before CreateProjectTx committed or failed.
StoppedInWindow(r) ==
    /\ pc[r] = "crashed"
    /\ del[r].caller = "none"
    /\ \A i \in 1..Len(tasks[r]) : tasks[r][i].st = "done"
    /\ errCh[r] = <<>>
    /\ project[r].Images = OrganizeResults(resultsCh[r]).ImageFiles

\* C31: the files of a request stopped between the return of ProcessUploads
\* and the commit are in storage in every later state, whatever the other
\* request does after the restart, and no committed row refers to them or to
\* the project.
C31_OrphansRemain ==
    \A r \in Requests :
       StoppedInWindow(r)
       => /\ SavedPaths(r) \subseteq files
          /\ Cardinality(SavedPaths(r)) = Len(tasks[r])
          /\ SavedPaths(r) \cap CommittedPaths = {}
          /\ ProjectRowsOf(r) = {}

\* Request 1 saved one image and was stopped with its transaction open;
\* request 2, after the restart, saved an image, failed in the writer and
\* removed its own file: the image of request 1 is still in storage.
C31_Witness ==
    /\ StoppedInWindow(1) /\ tx[1].st = "lost" /\ project[1].ID > 0
    /\ Cardinality(SavedPaths(1)) = 1 /\ SavedPaths(1) \subseteq files
    /\ pc[2] = "done" /\ resp[2].status = 500 /\ del[2].caller = "handler"
    /\ Len(del[2].list) = 1 /\ del[2].failed = {}
    /\ SavedPaths(2) \cap files = {}

\* Request r passed the validation of the handler with no pitch-deck and no
\* image part.
EmptyBatch(r) == pc[r] \notin {"idle", "off"} /\ resp[r].status # 400 /\ tasks[r] = <<>>

\* C32: a request without file parts starts no task, takes no semaphore slot,
\* sends nothing on the channels and leaves storage as it was; its
\* ProcessUploads returns the empty SavedFiles and no error, without a
\* compensation; its writer skips both batch inserts, and when the commit
\* succeeded the tables hold one project row of it and no pitch-deck or
\* image row; when the writer failed, the handler's DeleteSavedFiles has
\* nothing to remove.
C32_EmptyBatch ==
    \A r \in Requests :
       EmptyBatch(r)
       => /\ files = {} /\ dirs = {}
          /\ sem[r] = 0 /\ wg[r] = 0 /\ next[r] = 1
          /\ resultsCh[r] = <<>> /\ errCh[r] = <<>>
          /\ puErr[r] = NoErr /\ del[r].caller # "pu"
          /\ pc[r] # "pu"
             => /\ fileResponse[r] = EmptySavedFiles
                /\ project[r].PitchDecks = <<>> /\ project[r].Images = <<>>
          /\ pc[r] \notin {"tx_pitch", "tx_images"}
          /\ tx[r].pitch_decks = <<>> /\ tx[r].images = <<>>
          /\ del[r].caller = "handler" => del[r].list = <<>>
          /\ resp[r].status = 200
             => /\ Cardinality(ProjectRowsOf(r)) = 1
                /\ \A k \in 1..Len(db.pitch_decks) : db.pitch_decks[k].project_id # project[r].ID
                /\ \A k \in 1..Len(db.images) : db.images[k].project_id # project[r].ID
                /\ resp[r].project.PitchDecks = <<>> /\ resp[r].project.Images = <<>>

\* A request without file parts was answered 200 with its project row
\* committed.
C32_Witness ==
    \E r \in Requests :
       /\ EmptyBatch(r)
       /\ resp[r].status = 200 /\ tx[r].st = "committed"
       /\ Cardinality(ProjectRowsOf(r)) = 1
       /\ db.pitch_decks = <<>> /\ db.images = <<>>

\* C33: the step in which the model runs the UPDATE of an update-role
\* request for a member id that has a row, Exec and RowsAffected not
\* failing, ends the request with 204, leaves that row with the role of the
\* request and every other row of team_members and the project tables as
\* they were; and a request with an empty role is answered 400 without a
\* statement on team_members.
C33_UpdateRoleFrame ==
    /\ [][\A c \in Callers :
            (/\ call[c].op = "update" /\ call[c].st = "exec"
             /\ call'[c].st = "done"
             /\ MemberPresent(call[c].memberID)
             /\ call'[c].err \notin {"exec", "rowsaffected"})
            => /\ call'[c].status = 204
               /\ Len(team_members') = Len(team_members)
               /\ \A k \in 1..Len(team_members) :
                     team_members'[k] =
                        IF team_members[k].id = call[c].memberID
                        THEN [team_members[k] EXCEPT !.role = call[c].role]
                        ELSE team_members[k]
               /\ db' = db
       ]_vars
    /\ [](\A c \in Callers :
            (call[c].op = "update" /\ call[c].err = "role")
            => (call[c].status = 400 /\ call[c].st = "done" /\ ~call[c].touched))

\* C34: a looking_for list the handler accepted, stored as the comma-joined
\* string and parsed from it, is read back as the same sequence of tags: as
\* many tags, each the symbols of the form value at its position.
C34_LookingForRoundTrip ==
    (fetch.op = "looking_for" /\ fetch.st = "done")
    => IF ValidateLookingFor(fetch.lookingFor)
       THEN /\ fetch.err = ""
            /\ Len(fetch.parsed) = Len(fetch.lookingFor)
            /\ \A k \in 1..Len(fetch.lookingFor) :
                  fetch.parsed[k] = Chars(fetch.lookingFor[k])
       ELSE fetch.err = "looking_for" /\ fetch.stored = <<>> /\ fetch.parsed = <<>>

\* The list Partners, Partners was stored as one string with a comma and
\* read back as two tags.
C34_Witness ==
    /\ fetch.op = "looking_for" /\ fetch.st = "done"
    /\ fetch.lookingFor = <<"Partners", "Partners">>
    /\ fetch.stored = <<"Partners", ",", "Partners">>
    /\ fetch.parsed = << <<"Partners">>, <<"Partners">> >>

====
